---- MODULE Spec2Model ----
(***************************************************************************)
(* codeGrounds: the agentic execution and resilience engine.               *)
(*   - GeminiClient.generateText   (src/lib/Gemini.js)                     *)
(*   - Agent.execute               (src/lib/Agent.js)                      *)
(*   - Orchestrator.run            (src/unnamed/part_000)                  *)
(*   - Blackboard, KnowledgeGraph  (src/unnamed/part_004, part_003)        *)
(* Strings are modelled as sequences of tokens, String.includes as the     *)
(* contiguous-subsequence test on them.                                    *)
(***************************************************************************)
EXTENDS Integers, Sequences, FiniteSets, TLC

\* ------------------------------------------------------------------ bounds
\* longest conversation history handed to generateText by its caller
MaxHist == 3
\* most tool-calling turns the unscripted model makes in one Agent.execute
MaxToolTurns == 2
\* largest maxSteps of an agent talking to the unscripted model
MaxFreeSteps == 2
\* how far above the grace limit the scripted agent's maxSteps ranges
MaxOver == 1
MaxRecorded == 52
MaxPosted == 22

\* ------------------------------------------------------- program constants
\* Gemini.js:10  for (let i = 1; i <= 6; i++)
NumSlots == 6
\* Gemini.js:38  const maxRetries = 3
maxRetries == 3
\* Gemini.js:80  Math.pow(2, attempt) * 2000
BaseDelayMs == 2000
\* Agent.js:61  currentMaxSteps < 100
GraceLimit == 100
\* Agent.js:62  currentMaxSteps += 5
GraceExtension == 5

Slots == 1..NumSlots

\* --------------------------------------------------------- string helpers
\* String.prototype.includes on token sequences
Includes(s, sub) ==
    \E k \in 0..(Len(s) - Len(sub)) : SubSeq(s, k + 1, k + Len(sub)) = sub

Min(S) == CHOOSE x \in S : \A y \in S : x <= y

TimesTwo(n) == 2 * n
Pow2(n) == IF n = 0 THEN 1 ELSE IF n = 1 THEN 2 ELSE IF n = 2 THEN 4 ELSE 8

\* model identifiers, as token sequences
ModelPro == <<"gemini", "1.5", "pro">>
ModelFlash == <<"gemini", "1.5", "flash">>

\* error messages of the backend, as token sequences
MsgBadRequest == <<"400">>
MsgNoKey == <<"No API Key available">>
BackendErrors ==
    {<<"429">>, <<"too many tokens">>, <<"503">>,
     <<"429", "maximum context length">>, MsgBadRequest}
\* Gemini.js:89
MsgCritical == <<"Critical Failure: AI exhausted all retries, rotations, and fallbacks.">>
\* Agent.js:111
MsgExceeded == <<"Exceeded max tool steps.">>
NoError == <<>>

\* Gemini.js:45
isRateLimit(msg) ==
    Includes(msg, <<"429">>) \/ Includes(msg, <<"Resource has been exhausted">>)
\* Gemini.js:46
isContextError(msg) ==
    Includes(msg, <<"maximum context length">>) \/ Includes(msg, <<"too many tokens">>)
\* Gemini.js:47-49
isTransientOr4xx(msg) ==
    \/ Includes(msg, <<"fetch failed">>) \/ Includes(msg, <<"ETIMEDOUT">>)
    \/ Includes(msg, <<"ECONNRESET">>) \/ Includes(msg, <<"500">>)
    \/ Includes(msg, <<"503">>) \/ Includes(msg, <<"Deadline exceeded">>)
    \/ Includes(msg, <<"400">>)
isTransient(msg) ==
    \/ Includes(msg, <<"fetch failed">>) \/ Includes(msg, <<"ETIMEDOUT">>)
    \/ Includes(msg, <<"ECONNRESET">>) \/ Includes(msg, <<"500">>)
    \/ Includes(msg, <<"503">>) \/ Includes(msg, <<"Deadline exceeded">>)

\* ---------------------------------------------------- responses and turns
ToolNames == {"read_file", "write_file"}
\* the answers of the model: plain text, one call, and two calls around a
\* text part
Responses ==
    {<<"text">>, <<"read_file">>, <<"write_file", "text", "read_file">>}

IsCall(part) == part \in ToolNames
\* part_002:420-428: the tools advertised to a role
getDefinitions(allowed) == {t \in ToolNames : t \in allowed}
\* Agent.js:70  parts.filter(p => p.functionCall)
funcCallParts(parts) == SelectSeq(parts, IsCall)

\* a history turn; id is the identity of the turn object: the agent step
\* that pushed it
Turn(role, id, parts) == [role |-> role, id |-> id, parts |-> parts]
\* the history an agent has built after n turns: model/function pairs
RECURSIVE HistoryOfLen(_)
HistoryOfLen(n) ==
    IF n = 0 THEN <<>>
    ELSE Append(HistoryOfLen(n - 1),
                IF n % 2 = 1
                THEN Turn("model", (n - 1) \div 2, <<"read_file">>)
                ELSE Turn("function", (n - 1) \div 2,
                          <<[name |-> "read_file", content |-> "ok"]>>))

SeqOfRange(a, b) == [k \in 1..(IF b >= a THEN b - a + 1 ELSE 0) |-> a + k - 1]

\* ---------------------------------------------------- paths and dependencies
PathA == <<"a", ".js">>
PathB == <<"b", ".js">>
PathC == <<"lib", "/", "c", ".js">>
PathAB == <<"a", "b", ".js">>

\* the import strings the engineer writes into each file: b.js requires
\* './a', lib/c.js requires '../b', ab.js requires './ab.json'
ImportsOf(path) ==
    IF path = PathB THEN <<<<".", "/", "a">>>>
    ELSE IF path = PathC THEN <<<<"..", "/", "b">>>>
    ELSE IF path = PathAB THEN <<<<".", "/", "a", "b", ".json">>>>
    ELSE <<>>

Max(S) == CHOOSE x \in S : \A y \in S : x >= y

\* path.extname
extname(p) ==
    IF Len(p) > 1 /\ p[Len(p)] \in {".js", ".json"} THEN <<p[Len(p)]>> ELSE <<>>
\* path.basename(p, ext)
basename(p, ext) ==
    LET slash == Max({0} \cup {k \in 1..Len(p) : p[k] = "/"})
        base == SubSeq(p, slash + 1, Len(p))
    IN IF ext # <<>> /\ Len(base) > Len(ext)
          /\ SubSeq(base, Len(base) - Len(ext) + 1, Len(base)) = ext
       THEN SubSeq(base, 1, Len(base) - Len(ext))
       ELSE base

\* every indexed file taken for a dependent
getDependentsAll(deps, targetFile) ==
    [n \in 1..Len(deps) |-> deps[n].file]

\* part_003:119-133; deps is kg.dependencies, the entries [file, deps] in
\* insertion order
getDependents(deps, targetFile) ==
    LET targetBase == basename(targetFile, extname(targetFile))
        hit(e) == \E n \in 1..Len(e.deps) :
                     \/ Includes(e.deps[n], targetBase)
                     \/ Includes(e.deps[n], targetFile)
    IN [n \in 1..Len(SelectSeq(deps, hit)) |-> SelectSeq(deps, hit)[n].file]

\* part_003:32-43,73-78: indexFile replaces the entry of the file, or adds it
indexFile(deps, path) ==
    IF \E n \in 1..Len(deps) : deps[n].file = path
    THEN [n \in 1..Len(deps) |->
            IF deps[n].file = path THEN [file |-> path, deps |-> ImportsOf(path)]
            ELSE deps[n]]
    ELSE Append(deps, [file |-> path, deps |-> ImportsOf(path)])

\* the index of a project whose files have all been written
FullIndex ==
    indexFile(indexFile(indexFile(indexFile(<<>>, PathA), PathB), PathC), PathAB)

\* ------------------------------------------------------------------- plans
FileTask(path) == [path |-> path]
\* the plan payload: phases of File Tasks, and the setup commands
Plan(phases, setup) == [phases |-> phases, setupCommands |-> setup]
\* two phases of one file each
PlanTwoPhases ==
    Plan(<<<<FileTask(PathA)>>, <<FileTask(PathB)>>>>, <<"npm install">>)
\* one phase of four files: a chunk of three and a chunk of one
PlanOnePhase ==
    Plan(<<<<FileTask(PathA), FileTask(PathB), FileTask(PathC),
             FileTask(PathAB)>>>>, <<>>)
\* part_000:184-194: nothing checks the paths of the plan the architect
\* answers with; this one names a.js twice in its one phase
PlanSamePathTwice ==
    Plan(<<<<FileTask(PathA), FileTask(PathA)>>>>, <<>>)
Plans == {PlanTwoPhases, PlanOnePhase, PlanSamePathTwice}
NoPlan == Plan(<<>>, <<>>)
\* what the architect may answer to a plan request: a plan, text that
\* parseJson rejects, or JSON that has no phases
Payload(kind, plan) == [kind |-> kind, plan |-> plan]
NoPhases == Payload("json without phases", NoPlan)

\* part_000:237
ChunkOfFour == 3 + 1
CHUNK_SIZE == 3
\* part_000:75  maxRetries = 2
AgentRetries == 2
\* part_000:184  for (let i = 0; i < 3; i++)
PlanAttempts == 3

\* the phrases of the instruction text that the controller looks for
PhraseCheck == "check all files"
PhraseRecheck == "recheck all files"
\* the phrases a text includes, given those it was written with:
\* 'recheck all files' includes 'check all files'
PhrasesIn(written) ==
    written \cup (IF PhraseRecheck \in written THEN {PhraseCheck} ELSE {})

\* answers of the agents the controller reads
TextValid == <<"VALID">>
TextClear == <<"CLEAR">>
TextDepChanged(path) == <<"Dependency">> \o path \o <<"changed.">>
TextAudited == <<"PASS">>

NoFiles == [p \in {} |-> [status |-> "", lastAudit |-> <<>>]]
FileRecord(status, audit) == [status |-> status, lastAudit |-> audit]

\* architecture.files?.[path]?.status
StatusOf(files, path) ==
    IF path \in DOMAIN files THEN files[path].status ELSE "undefined"

\* part_004:91-99
updateFileStatus(files, path, status, audit) ==
    [p \in (DOMAIN files) \cup {path} |->
        IF p = path THEN FileRecord(status, audit) ELSE files[p]]

VARIABLES
    \* ---- GeminiClient
    clients,          \* GeminiClient.clients: the configured slot indices
    gpc,              \* position of generateText
    currentKeyIndex,  \* generateText local
    currentModel,     \* generateText local
    attempt,          \* generateText local
    error,            \* the error caught by generateText (NoError if none)
    history,          \* Agent.execute's history array; generateText's
                      \* chatHistory parameter is this same array object
    usedClient,       \* slot whose backend client sent the latest request
    delay,            \* the latest backoff delay in ms (0 if none)
    thrown,           \* the error generateText has thrown (NoError if none)
    response,         \* parts of the response generateText has returned
    \* ---- Agent
    apc,              \* position of Agent.execute
    maxSteps,         \* this.maxSteps
    modelName,        \* this.modelName
    keyIndex,         \* this.keyIndex
    allowedTools,     \* this.allowedTools; null is the set of all tools
    i,                \* loop counter of Agent.execute
    currentMaxSteps,  \* Agent.execute local
    functionResponses,\* Agent.execute local, results of the current turn
    inFlight,         \* indices of the tool calls the executor is running
    execLog,          \* indices of the tool calls of this turn, in the
                      \* order toolSet.execute was invoked
    athrown,          \* the error Agent.execute has thrown
    modelCalls,       \* number of generateText calls of this execute
    modelScript       \* <<>>: the model answers freely; otherwise the
                      \* parts it answers every request with

gvars == <<clients, gpc, currentKeyIndex, currentModel, attempt, error,
           history, usedClient, delay, thrown, response>>
avars == <<apc, maxSteps, modelName, keyIndex, allowedTools, i, currentMaxSteps,
           functionResponses, inFlight, execLog, athrown, modelCalls,
           modelScript>>
VARIABLES
    opc,              \* position of Orchestrator.run
    isUpdate,         \* run local: an existing project is resumed
    userPrompt,       \* run parameter: the phrases the instruction contains
    goals,            \* blackboard.state.project.goals
    architecture,     \* blackboard.state.architecture: phases and files
    checkpoint,       \* blackboard.state.checkpoint
    dependencies,     \* kg.dependencies
    hasArchitecture,  \* run local
    verification,     \* run local: the verdict on the stored plan
    retry,            \* i of runWithRetry
    hints,            \* runWithRetry: the error messages appended to prompt
    lastError,        \* runWithRetry local ("" if none)
    planTry,          \* i of the plan generation loop
    setupLeft,        \* setup commands still to run
    lastPhase,        \* run local
    phaseIdx,         \* i of the construction loop
    chunkAt,          \* offset in the phase of the chunk being awaited
    tasks,            \* the File Tasks of the plan, by <<phase, position>>
    oerror,           \* the error run has thrown ("" if none)
    loaded            \* the persisted state blackboard.load() has read

ovars == <<opc, isUpdate, userPrompt, goals, architecture, checkpoint,
           dependencies, hasArchitecture, verification, retry, hints,
           lastError, planTry, setupLeft,
           lastPhase, phaseIdx, chunkAt, tasks, oerror, loaded>>

VARIABLES
    \* ---- main (bin/codegrounds.js)
    mpc,              \* "running", or "ended" when the process has ended
    reported,         \* main has printed the error of run to the operator
    exitCode,         \* the exit code of the process
    \* ---- ToolSet
    tpc,              \* position of ToolSet.execute
    tname,            \* execute parameter: the tool name
    targs,            \* execute parameter: "given", or "missing" (undefined)
    tpath,            \* args.path
    tresult,          \* the text execute has returned
    tfailed,          \* an operation under the tool call has failed
    written,          \* the file of a write_file call is on disk
    indexed,          \* ... and in the knowledge graph
    syntaxOk,         \* what validateSyntax has answered
    cmdHangs,         \* the shell command of run_command never exits
    \* ---- Blackboard logs
    bbHistory,        \* blackboard.state.history
    messages,         \* blackboard.state.messages (<<>> also while undefined)
    recorded,         \* number of recordEvent calls so far
    posted            \* number of addMessage calls so far

mvars == <<mpc, reported, exitCode>>
tvars == <<tpc, tname, targs, tpath, tresult, tfailed, written, indexed,
           syntaxOk, cmdHangs>>
bvars == <<bbHistory, messages, recorded, posted>>

vars == <<gvars, avars, ovars, mvars, tvars, bvars>>

\* ------------------------------------------------------------ GeminiClient
\* Gemini.js:27-32; 0 stands for the thrown 'No API Key available'
getClient(index) ==
    IF index \in clients THEN index
    ELSE IF clients # {} THEN Min(clients)
    ELSE 0

\* Gemini.js:92-99; 0 stands for null
getNextAvailableKeyWrong(currentKey) ==
    IF Cardinality(clients) <= 1 THEN 0
    ELSE Min(clients)
getNextAvailableKey(currentKey) ==
    IF Cardinality(clients) <= 1 THEN 0
    ELSE IF \E k \in clients : k > currentKey
         THEN Min({k \in clients : k > currentKey})
         ELSE Min(clients)

\* Gemini.js:58  if (history.length > 2) history.splice(0, length - 2)
PruneKeepFirst(h) == IF Len(h) > 2 THEN SubSeq(h, 1, 2) ELSE h
Prune(h) == IF Len(h) > 2 THEN SubSeq(h, Len(h) - 1, Len(h)) ELSE h

\* an invocation that goes on with the key and model the one before it
\* ended with
generateTextSticky(model, key) ==
    /\ currentKeyIndex' = IF currentKeyIndex # 0 THEN currentKeyIndex ELSE key
    /\ currentModel' = IF currentModel # <<>> THEN currentModel ELSE model
    /\ attempt' = 0
    /\ error' = NoError
    /\ thrown' = NoError
    /\ delay' = 0
    /\ gpc' = "request"
    /\ UNCHANGED <<clients, usedClient, response>>

\* Gemini.js:34-38,42: generateText is entered and sends its first request
\* (the effect on generateText's own state; the caller's frame is the
\* caller's)
generateText(model, key) ==
    /\ currentKeyIndex' = key
    /\ currentModel' = model
    /\ attempt' = 0
    /\ error' = NoError
    /\ thrown' = NoError
    /\ delay' = 0
    /\ gpc' = "request"
    /\ UNCHANGED <<clients, usedClient, response>>

\* generateText called directly, on the history the caller hands in
GeminiCall ==
    /\ gpc = "idle"
    /\ apc = "idle"
    /\ \E m \in {ModelPro, ModelFlash,
                   <<"gemini", "2.5", "flash", "preview">>}, k \in Slots : generateText(m, k)
    /\ UNCHANGED <<history, avars, ovars, mvars, tvars, bvars>>

\* what the model may answer to the request in flight
Answers ==
    IF modelScript # <<>> THEN {modelScript}
    ELSE {r \in Responses : funcCallParts(r) = <<>> \/ i < MaxToolTurns}

\* Gemini.js:42,101-142: the request in flight comes back with a response
RequestSucceeds ==
    /\ gpc = "request"
    /\ getClient(currentKeyIndex) # 0
    /\ usedClient' = getClient(currentKeyIndex)
    /\ \E r \in Answers : response' = r
    /\ gpc' = "returned"
    /\ UNCHANGED <<clients, currentKeyIndex, currentModel, attempt, error,
                   history, delay, thrown, avars, ovars, mvars, tvars, bvars>>

\* Gemini.js:42-44,102: the request fails (or getClient throws) and is caught
RequestFails ==
    /\ gpc = "request"
    /\ modelScript = <<>>
    /\ \/ /\ getClient(currentKeyIndex) = 0
          /\ error' = MsgNoKey
          /\ usedClient' = 0
       \/ /\ getClient(currentKeyIndex) # 0
          /\ \E msg \in BackendErrors : error' = msg
          /\ usedClient' = getClient(currentKeyIndex)
    /\ gpc' = "catch"
    /\ UNCHANGED <<clients, currentKeyIndex, currentModel, attempt,
                   history, delay, thrown, response, avars, ovars, mvars, tvars, bvars>>

\* Gemini.js:51
Recoverable(msg) == isRateLimit(msg) \/ isTransient(msg) \/ isContextError(msg)

\* Gemini.js:83-85: any other error is rethrown
CatchFatal ==
    /\ gpc = "catch"
    /\ ~Recoverable(error)
    /\ thrown' = error
    /\ gpc' = "thrown"
    /\ UNCHANGED <<clients, currentKeyIndex, currentModel, attempt, error,
                   history, usedClient, delay, response, avars, ovars, mvars, tvars, bvars>>

\* Gemini.js:55-62: prune, switch to the pro model, restart the attempts
CatchContextOverflow ==
    /\ gpc = "catch"
    /\ isContextError(error)
    /\ history' = Prune(history)
    /\ currentModel' = IF ~Includes(currentModel, <<"pro">>) THEN ModelPro
                       ELSE currentModel
    /\ attempt' = 0
    /\ delay' = 0
    /\ gpc' = "request"
    /\ UNCHANGED <<clients, currentKeyIndex, error, usedClient, thrown,
                   response, avars, ovars, mvars, tvars, bvars>>

\* Gemini.js:51,55: a rate-limit or network failure not taken by the
\* overflow branch
RetryAnyway(msg) == isRateLimit(msg) \/ isTransient(msg)
RetryOnly(msg) == (isRateLimit(msg) \/ isTransient(msg)) /\ ~isContextError(msg)

\* Gemini.js:79-82: below the ceiling, sleep 2^attempt * 2s
CatchBackoff ==
    /\ gpc = "catch"
    /\ RetryOnly(error)
    /\ attempt # maxRetries
    /\ delay' = Pow2(attempt) * BaseDelayMs
    /\ gpc' = "backoff"
    /\ UNCHANGED <<clients, currentKeyIndex, currentModel, attempt, error,
                   history, usedClient, thrown, response, avars, ovars, mvars, tvars, bvars>>

\* Gemini.js:81,87,40,89: the timer fires, attempt++, the next request is sent
BackoffElapsed ==
    /\ gpc = "backoff"
    /\ attempt' = attempt + 1
    /\ IF attempt + 1 <= maxRetries
       THEN gpc' = "request" /\ thrown' = thrown
       ELSE gpc' = "thrown" /\ thrown' = MsgCritical
    /\ UNCHANGED <<clients, currentKeyIndex, currentModel, error,
                   history, usedClient, delay, response, avars, ovars, mvars, tvars, bvars>>

\* Gemini.js:66  nextKey && nextKey !== currentKeyIndex
CanRotate(nextKey) == nextKey # 0 /\ nextKey # currentKeyIndex

\* Gemini.js:64-71: at the ceiling, rotate to the next configured key
CatchRotate ==
    /\ gpc = "catch"
    /\ RetryOnly(error)
    /\ attempt = maxRetries
    /\ CanRotate(getNextAvailableKey(currentKeyIndex))
    /\ currentKeyIndex' = getNextAvailableKey(currentKeyIndex)
    /\ attempt' = 0
    /\ delay' = 0
    /\ gpc' = "request"
    /\ UNCHANGED <<clients, currentModel, error, history, usedClient, thrown,
                   response, avars, ovars, mvars, tvars, bvars>>

\* Gemini.js:73
CanDowngrade ==
    Includes(currentModel, <<"pro">>) \/ Includes(currentModel, <<"preview">>)

\* Gemini.js:73-78: no rotation possible, fall back to the flash model
CatchDowngrade ==
    /\ gpc = "catch"
    /\ RetryOnly(error)
    /\ attempt = maxRetries
    /\ ~CanRotate(getNextAvailableKey(currentKeyIndex))
    /\ CanDowngrade
    /\ currentModel' = ModelFlash
    /\ attempt' = 0
    /\ delay' = 0
    /\ gpc' = "request"
    /\ UNCHANGED <<clients, currentKeyIndex, error, history, usedClient,
                   thrown, response, avars, ovars, mvars, tvars, bvars>>

\* Gemini.js:64-78,87-89: nothing left: attempt++ ends the loop and the
\* 'Critical Failure' error is thrown
CatchExhausted ==
    /\ gpc = "catch"
    /\ RetryOnly(error)
    /\ attempt = maxRetries
    /\ ~CanRotate(getNextAvailableKey(currentKeyIndex))
    /\ ~CanDowngrade
    /\ attempt' = attempt + 1
    /\ delay' = 0
    /\ thrown' = MsgCritical
    /\ gpc' = "thrown"
    /\ UNCHANGED <<clients, currentKeyIndex, currentModel, error,
                   history, usedClient, response, avars, ovars, mvars, tvars, bvars>>

\* ------------------------------------------------------------------- Agent
\* Agent.js:44,50-57,111: the loop head with counter n and budget cms: the
\* next generateText call, or the step-budget error
LoopHead(n, cms) ==
    IF n < cms
    THEN /\ generateText(modelName, keyIndex)
         /\ modelCalls' = modelCalls + 1
         /\ apc' = "awaitModel"
         /\ athrown' = athrown
    ELSE /\ apc' = "thrown"
         /\ athrown' = MsgExceeded
         /\ gpc' = "idle"
         /\ UNCHANGED <<clients, currentKeyIndex, currentModel, attempt,
                        error, usedClient, delay, thrown, response,
                        modelCalls>>

\* Agent.js:16-57: execute is entered, with an empty history
Execute ==
    /\ apc = "start"
    /\ history' = <<>>
    /\ currentMaxSteps' = maxSteps
    /\ i' = 0
    /\ LoopHead(0, maxSteps)
    /\ UNCHANGED <<maxSteps, modelName, keyIndex, allowedTools, functionResponses,
                   inFlight, execLog, modelScript>>
    /\ UNCHANGED <<ovars, mvars, tvars, bvars>>

\* Agent.js:61-63
GraceOnlyOnce(n, cms) ==
    IF n = cms - 1 /\ cms = maxSteps /\ cms < GraceLimit
    THEN cms + GraceExtension ELSE cms
GraceOffByOne(n, cms) ==
    IF n = cms - 1 /\ cms <= GraceLimit THEN cms + GraceExtension ELSE cms
Grace(n, cms) ==
    IF n = cms - 1 /\ cms < GraceLimit THEN cms + GraceExtension ELSE cms

\* Agent.js:80-84: the tool calls to hand to the executor now, when k calls
\* were requested, nStarted of them have been started and none is running
StartAll(k, nStarted) == (nStarted + 1)..k
StartNext(k, nStarted) == IF nStarted < k THEN {nStarted + 1} ELSE {}

\* Agent.js:61-72,102: a response without tool call ends the loop
OnTextResponse ==
    /\ apc = "awaitModel"
    /\ gpc = "returned"
    /\ funcCallParts(response) = <<>>
    /\ currentMaxSteps' = Grace(i, currentMaxSteps)
    /\ apc' = "returned"
    /\ gpc' = "idle"
    /\ UNCHANGED <<clients, currentKeyIndex, currentModel, attempt, error,
                   history, usedClient, delay, thrown, response>>
    /\ UNCHANGED <<maxSteps, modelName, keyIndex, allowedTools, i, functionResponses,
                   inFlight, execLog, athrown, modelCalls, modelScript>>
    /\ UNCHANGED <<ovars, mvars, tvars, bvars>>

\* Agent.js:61-84: a response with tool calls: the first call is handed to
\* the executor
OnToolResponse ==
    /\ apc = "awaitModel"
    /\ gpc = "returned"
    /\ funcCallParts(response) # <<>>
    /\ currentMaxSteps' = Grace(i, currentMaxSteps)
    /\ functionResponses' = <<>>
    /\ inFlight' = StartNext(Len(funcCallParts(response)), 0)
    /\ execLog' = SeqOfRange(1, Cardinality(inFlight'))
    /\ apc' = "tools"
    /\ gpc' = "idle"
    /\ UNCHANGED <<clients, currentKeyIndex, currentModel, attempt, error,
                   history, usedClient, delay, thrown, response>>
    /\ UNCHANGED <<maxSteps, modelName, keyIndex, allowedTools, i, athrown, modelCalls,
                   modelScript>>
    /\ UNCHANGED <<ovars, mvars, tvars, bvars>>

\* Agent.js:105-108: an error of generateText is logged and rethrown
OnModelError ==
    /\ apc = "awaitModel"
    /\ gpc = "thrown"
    /\ athrown' = thrown
    /\ apc' = "thrown"
    /\ gpc' = "idle"
    /\ UNCHANGED <<clients, currentKeyIndex, currentModel, attempt, error,
                   history, usedClient, delay, thrown, response>>
    /\ UNCHANGED <<maxSteps, modelName, keyIndex, allowedTools, i, currentMaxSteps,
                   functionResponses, inFlight, execLog, modelCalls,
                   modelScript>>
    /\ UNCHANGED <<ovars, mvars, tvars, bvars>>

\* what the executor may hand back for a call
Results == {"ok"}

\* the result of call j is appended to the results of the turn
PushedAlone(j, content) ==
    <<[name |-> funcCallParts(response)[j], content |-> content]>>
Pushed(j, content) ==
    Append(functionResponses,
           [name |-> funcCallParts(response)[j], content |-> content])

\* Agent.js:80-95: a tool call returns, its result is pushed and the next
\* call of the turn is handed to the executor
ToolReturnNext ==
    /\ apc = "tools"
    /\ \E j \in inFlight, content \in Results :
        LET k == Len(funcCallParts(response))
            started == IF inFlight = {j} THEN StartNext(k, Len(execLog)) ELSE {}
        IN /\ Len(functionResponses) + 1 < k
           /\ functionResponses' = Pushed(j, content)
           /\ inFlight' = (inFlight \ {j}) \cup started
           /\ execLog' = execLog \o SeqOfRange(Len(execLog) + 1,
                                               Len(execLog) + Cardinality(started))
    /\ UNCHANGED gvars
    /\ UNCHANGED <<apc, maxSteps, modelName, keyIndex, allowedTools, i, currentMaxSteps,
                   athrown, modelCalls, modelScript>>
    /\ UNCHANGED <<ovars, mvars, tvars, bvars>>

\* Agent.js:80-99,44-57,111: the last tool call of the turn returns, both
\* turns are pushed onto the history, i++, the loop goes on
ToolReturnLast ==
    /\ apc = "tools"
    /\ \E j \in inFlight, content \in Results :
        /\ Len(functionResponses) + 1 = Len(funcCallParts(response))
        /\ functionResponses' = Pushed(j, content)
        /\ inFlight' = inFlight \ {j}
        /\ history' = history \o <<Turn("model", i, response),
                                   Turn("function", i, Pushed(j, content))>>
    /\ i' = i + 1
    /\ LoopHead(i + 1, currentMaxSteps)
    /\ UNCHANGED <<maxSteps, modelName, keyIndex, allowedTools, currentMaxSteps, execLog,
                   modelScript>>
    /\ UNCHANGED <<ovars, mvars, tvars, bvars>>

\* -------------------------------------------------------- Blackboard logs
\* part_004:108
HistoryLimit == 50
\* part_004:119
MessageLimit == 20

\* part_004:101-109: push, then shift when the log is over its limit
recordEventDropsNewest(log, entry) ==
    IF Len(log) + 1 > HistoryLimit THEN log ELSE Append(log, entry)
recordEvent(log, entry) ==
    IF Len(log) + 1 > HistoryLimit THEN Tail(Append(log, entry))
    ELSE Append(log, entry)

\* part_004:111-120
addMessage(log, entry) ==
    IF Len(log) + 1 > MessageLimit THEN Tail(Append(log, entry))
    ELSE Append(log, entry)

\* an operation of the blackboard that records one event: updateProject
\* (part_004:58-62), setArchitecture (64-68), logBug (70-74); the entry is
\* named by its ordinal
RecordsEvent ==
    /\ bbHistory' = recordEvent(bbHistory, recorded + 1)
    /\ recorded' = recorded + 1
    /\ UNCHANGED <<messages, posted>>

\* an operation that posts one message (part_002:450-455)
PostsMessage ==
    /\ messages' = addMessage(messages, posted + 1)
    /\ posted' = posted + 1
    /\ UNCHANGED <<bbHistory, recorded>>

\* ------------------------------------------------------------ Orchestrator
\* part_000:143
needsRecheck == PhraseRecheck \in PhrasesIn(userPrompt)

\* part_000:145,173: verify the stored plan, or make a new one
Gate(hasArch) ==
    IF isUpdate /\ hasArch /\ ~needsRecheck THEN "verify" ELSE "plan"

Architecture(plan, files) ==
    [phases |-> plan.phases, setupCommands |-> plan.setupCommands,
     files |-> files]

\* the File Tasks of a plan: <<phase index, position in the phase>>
TaskIds(phases) ==
    UNION {{<<p, k>> : k \in 1..Len(phases[p + 1])} :
           p \in 0..(Len(phases) - 1)}
PathOf(t) == architecture.phases[t[1] + 1][t[2]].path

Settled(pc) == pc \in {"skipped", "kept", "built", "failed"}

NewTask == [pc |-> "pending", license |-> "", pending |-> <<>>,
            startStatus |-> "", exists |-> "unknown", judgment |-> <<>>]

\* part_000:239-241: the tasks of the chunk at offset j of phase p
ChunkTasks(p, j) ==
    {t \in DOMAIN tasks : t[1] = p /\ t[2] > j /\ t[2] <= j + CHUNK_SIZE}

\* part_000:90-145: run up to its first agent call
Run ==
    /\ opc = "start"
    /\ hasArchitecture' = (Len(architecture.phases) > 0)
    /\ UNCHANGED verification
    /\ opc' = IF isUpdate /\ Len(goals) > 0
                 /\ PhraseCheck \notin PhrasesIn(userPrompt)
              THEN Gate(Len(architecture.phases) > 0)
              ELSE "clarify"
    /\ UNCHANGED <<isUpdate, userPrompt, goals, architecture, checkpoint,
                   dependencies, retry, hints, lastError, planTry, setupLeft,
                   lastPhase,
                   phaseIdx, chunkAt, tasks, oerror, loaded>>
    /\ RecordsEvent
    /\ UNCHANGED <<gvars, avars, mvars, tvars>>

\* the frame of a step of run before and after construction
RunFrame ==
    /\ UNCHANGED <<isUpdate, dependencies, lastPhase, phaseIdx, chunkAt,
                   tasks, loaded, hasArchitecture, verification>>
    /\ UNCHANGED <<gvars, avars, tvars>>

Frame ==
    /\ RunFrame
    /\ UNCHANGED <<mvars, bvars>>

\* part_000:122-131: the PM answers CLEAR or asks; the user's answer is
\* appended to the instruction
ClarifyReturns ==
    /\ opc = "clarify"
    /\ \E text \in {TextClear, <<"Which framework?">>}, answer \in {{}, {PhraseRecheck}} :
        userPrompt' = IF text = TextClear THEN userPrompt
                      ELSE userPrompt \cup answer
    /\ opc' = "requirements"
    /\ retry' = 0
    /\ hints' = <<>>
    /\ lastError' = ""
    /\ UNCHANGED <<goals, architecture, checkpoint, planTry, setupLeft, oerror>>
    /\ Frame

\* part_000:122: an error of the PM propagates out of run
ClarifyThrows ==
    /\ opc = "clarify"
    /\ opc' = "aborted"
    /\ oerror' = "pm"
    /\ UNCHANGED <<userPrompt, goals, architecture, checkpoint, retry, hints,
                   lastError,
                   planTry, setupLeft>>
    /\ Frame

\* part_000:136-145: requirements are stored; on to the architecture gate
RequirementsReturns ==
    /\ opc = "requirements"
    /\ goals' = <<"requirements">>
    /\ opc' = Gate(hasArchitecture)
    /\ retry' = 0
    /\ hints' = <<>>
    /\ lastError' = ""
    /\ planTry' = 0
    /\ UNCHANGED <<userPrompt, architecture, checkpoint, setupLeft, oerror>>
    /\ RunFrame
    /\ RecordsEvent
    /\ UNCHANGED mvars

\* the hint of the latest failure alone
HintReplaces(prompt, e) == <<e>>
\* part_000:84: prompt += NOTE: Your previous attempt failed with error ...
Hint(prompt, e) == Append(prompt, e)

\* part_000:75-88: runWithRetry retries, then throws the last error
runWithRetryThrows ==
    /\ \E e \in {"503 Service Unavailable", MsgExceeded[1]} :
        /\ lastError' = e
        /\ hints' = Hint(hints, e)
    /\ IF retry < AgentRetries
       THEN /\ retry' = retry + 1
            /\ UNCHANGED <<opc, oerror>>
       ELSE /\ opc' = "aborted"
            /\ oerror' = "agent"
            /\ retry' = retry
    /\ UNCHANGED <<userPrompt, goals, architecture, checkpoint, planTry,
                   setupLeft>>
    /\ UNCHANGED <<isUpdate, dependencies, lastPhase, phaseIdx, chunkAt,
                   tasks, loaded, hasArchitecture, verification>>
    /\ UNCHANGED <<gvars, avars, tvars, mvars, bvars>>

RequirementsThrows ==
    /\ opc = "requirements"
    /\ runWithRetryThrows

\* any answer that names VALID taken for the verdict VALID
VerdictIncludesValid(text) ==
    IF Includes(text, TextValid) THEN "approve" ELSE "plan"
\* part_000:163: verification.trim() === "VALID"
Verdict(text) == IF text = TextValid THEN "approve" ELSE "plan"

\* part_000:161-171: the architect judges the stored plan
VerifyReturns ==
    /\ opc = "verify"
    /\ \E text \in {TextValid, <<"STALE", "missing modules">>,
                     <<"not", "VALID">>} :
        /\ verification' = text
        /\ opc' = Verdict(text)
    /\ retry' = 0
    /\ hints' = <<>>
    /\ lastError' = ""
    /\ planTry' = 0
    /\ UNCHANGED <<userPrompt, goals, architecture, checkpoint, setupLeft,
                   oerror>>
    /\ UNCHANGED <<isUpdate, dependencies, lastPhase, phaseIdx, chunkAt,
                   tasks, loaded, hasArchitecture>>
    /\ UNCHANGED <<gvars, avars, tvars, mvars, bvars>>

VerifyThrows ==
    /\ opc = "verify"
    /\ opc' = "aborted"
    /\ oerror' = "architect"
    /\ UNCHANGED <<userPrompt, goals, architecture, checkpoint, retry, hints,
                   lastError,
                   planTry, setupLeft>>
    /\ Frame

\* the new plan stored under the file records of the old one
setArchitectureKeepsFiles(old, arch) == [arch EXCEPT !.files = old.files]
\* part_004:64-68: this.state.architecture = arch
setArchitecture(old, arch) == arch

\* part_000:184-194, part_004:64-68: a plan that parses replaces the whole
\* architecture record
PlanReturns ==
    /\ opc = "plan"
    /\ \E payload \in {Payload("plan", p) : p \in Plans}
                        \cup {Payload("not json", NoPlan), NoPhases} :
        IF payload.kind = "plan"
        THEN /\ architecture' = setArchitecture(architecture,
                                    Architecture(payload.plan, NoFiles))
             /\ opc' = "approve"
             /\ planTry' = 0
             /\ RecordsEvent
             /\ UNCHANGED oerror
        ELSE IF payload = NoPhases
        THEN /\ opc' = "aborted"
             /\ oerror' = "TypeError"
             /\ UNCHANGED <<architecture, planTry, bvars>>
        ELSE IF planTry + 1 < PlanAttempts
        THEN /\ planTry' = planTry + 1
             /\ UNCHANGED <<architecture, opc, oerror, bvars>>
        ELSE /\ opc' = "aborted"
             /\ oerror' = "Architect failed to produce valid JSON."
             /\ UNCHANGED <<architecture, planTry, bvars>>
    /\ retry' = 0
    /\ hints' = <<>>
    /\ lastError' = ""
    /\ UNCHANGED <<userPrompt, goals, checkpoint, setupLeft>>
    /\ RunFrame
    /\ UNCHANGED mvars

PlanThrows ==
    /\ opc = "plan"
    /\ runWithRetryThrows

\* part_000:200-216: the user approves; the tests directory is listed and
\* the tester is called
Approve ==
    /\ opc = "approve"
    /\ \E start \in BOOLEAN, listed \in BOOLEAN :
        IF ~start
        THEN /\ opc' = "exited"
             /\ mpc' = "ended"
             /\ exitCode' = 0
             /\ UNCHANGED <<oerror, reported>>
        ELSE IF ~listed
        THEN opc' = "aborted" /\ oerror' = "ENOENT" /\ UNCHANGED mvars
        ELSE opc' = "testStrategy" /\ UNCHANGED <<oerror, mvars>>
    /\ UNCHANGED <<userPrompt, goals, architecture, checkpoint, retry, hints,
                   lastError,
                   planTry, setupLeft>>
    /\ RunFrame
    /\ UNCHANGED bvars

\* part_000:230
StartPhaseZero(ckpt) == 0
StartPhase(ckpt) == ckpt.lastPhase

\* part_000:220-232: construction is entered
EnterConstruction ==
    /\ opc' = "construction"
    /\ lastPhase' = StartPhase(checkpoint)
    /\ phaseIdx' = StartPhase(checkpoint)
    /\ chunkAt' = 0 - CHUNK_SIZE
    /\ tasks' = [t \in TaskIds(architecture.phases) |-> NewTask]

\* part_000:216-228: the tester returns; the setup commands are run
TestStrategyReturns ==
    /\ opc = "testStrategy"
    /\ setupLeft' = Len(architecture.setupCommands)
    /\ IF Len(architecture.setupCommands) > 0
       THEN /\ opc' = "setup"
            /\ UNCHANGED <<lastPhase, phaseIdx, chunkAt, tasks>>
       ELSE EnterConstruction
    /\ UNCHANGED <<isUpdate, userPrompt, goals, architecture, checkpoint,
                   dependencies, hasArchitecture, verification, retry, hints,
                   lastError, planTry, oerror,
                   loaded>>
    /\ UNCHANGED <<gvars, avars, mvars, tvars, bvars>>

TestStrategyThrows ==
    /\ opc = "testStrategy"
    /\ opc' = "aborted"
    /\ oerror' = "tester"
    /\ UNCHANGED <<userPrompt, goals, architecture, checkpoint, retry, hints,
                   lastError,
                   planTry, setupLeft>>
    /\ Frame

\* part_000:224-232: a setup command is done
SetupReturns ==
    /\ opc = "setup"
    /\ setupLeft' = setupLeft - 1
    /\ IF setupLeft > 1
       THEN UNCHANGED <<opc, lastPhase, phaseIdx, chunkAt, tasks>>
       ELSE EnterConstruction
    /\ UNCHANGED <<isUpdate, userPrompt, goals, architecture, checkpoint,
                   dependencies, hasArchitecture, verification, retry, hints,
                   lastError, planTry, oerror,
                   loaded>>
    /\ UNCHANGED <<gvars, avars, mvars, tvars, bvars>>

SetupThrows ==
    /\ opc = "setup"
    /\ opc' = "aborted"
    /\ oerror' = "devops"
    /\ UNCHANGED <<userPrompt, goals, architecture, checkpoint, retry, hints,
                   lastError,
                   planTry, setupLeft>>
    /\ Frame

\* part_000:244: Promise.all of the chunk has resolved
ChunkNotAwaited(ts) == TRUE
ChunkJoined(ts) == \A t \in ts : Settled(tasks[t].pc)

\* part_000:246
SkipNever(files, path) == FALSE
SkipPerfected(files, path) == isUpdate /\ StatusOf(files, path) = "PERFECTED"

\* part_000:232-254: the next chunk, if any: its tasks run up to their first
\* await
NextPhaseOnly == <<phaseIdx + 1, 0>>
NextChunk ==
    IF phaseIdx < Len(architecture.phases)
       /\ chunkAt + CHUNK_SIZE < Len(architecture.phases[phaseIdx + 1])
    THEN <<phaseIdx, chunkAt + CHUNK_SIZE>>
    ELSE <<phaseIdx + 1, 0>>

\* part_000:232-254,310-320: the chunk is joined and the next one started;
\* after the last chunk the debugger is called
Advance ==
    /\ opc = "construction"
    /\ ChunkJoined(ChunkTasks(phaseIdx, chunkAt))
    /\ IF NextChunk[1] < Len(architecture.phases)
       THEN /\ phaseIdx' = NextChunk[1]
            /\ chunkAt' = NextChunk[2]
            /\ tasks' = [t \in DOMAIN tasks |->
                 IF t[1] = NextChunk[1] /\ t[2] > NextChunk[2]
                    /\ t[2] <= NextChunk[2] + CHUNK_SIZE
                 THEN [tasks[t] EXCEPT
                        !.pc = IF SkipPerfected(architecture.files, PathOf(t))
                               THEN "skipped" ELSE "exists",
                        !.startStatus = StatusOf(architecture.files, PathOf(t))]
                 ELSE tasks[t]]
            /\ opc' = opc
       ELSE /\ opc' = "verification"
            /\ UNCHANGED <<phaseIdx, chunkAt, tasks>>
    /\ UNCHANGED <<isUpdate, userPrompt, goals, architecture, checkpoint,
                   dependencies, hasArchitecture, verification, retry, hints,
                   lastError, planTry, setupLeft,
                   lastPhase, oerror, loaded>>
    /\ UNCHANGED <<gvars, avars, mvars, tvars, bvars>>

\* the frame of a step of one File Task
TaskFrame ==
    /\ UNCHANGED <<isUpdate, userPrompt, goals, hasArchitecture,
                   verification, retry, hints, lastError,
                   planTry, setupLeft, lastPhase, phaseIdx, chunkAt, oerror,
                   loaded>>
    /\ UNCHANGED <<gvars, avars, mvars, tvars, bvars>>

Goto(t, pc) == tasks' = [tasks EXCEPT ![t].pc = pc]

\* part_000:254-293: pathExists answers; an existing file is judged, a
\* missing one is built
TaskExists(t) ==
    /\ tasks[t].pc = "exists"
    /\ \E exists \in BOOLEAN :
        tasks' = [tasks EXCEPT
                    ![t].pc = IF exists THEN "judge" ELSE "engineer",
                    ![t].license = IF exists THEN "" ELSE "BUILD",
                    ![t].exists = IF exists THEN "yes" ELSE "no",
                    ![t].judgment = <<"BUILD">>]
    /\ UNCHANGED <<opc, architecture, checkpoint, dependencies>>
    /\ TaskFrame

\* every file built under the creation license
LicenseAlwaysBuild(judgment) == "BUILD"
\* part_000:280
License(judgment) ==
    IF Includes(judgment, <<"REFAC">>) THEN "REFAC" ELSE "BUILD"

\* part_000:270-293, part_004:91-99: the judgment arrives
TaskJudged(t) ==
    /\ tasks[t].pc = "judge"
    /\ \E judgment \in {<<"SKIP">>, <<"REFAC">>, <<"The file is fine">>} :
        IF Includes(judgment, <<"SKIP">>)
        THEN /\ architecture' = [architecture EXCEPT !.files =
                    updateFileStatus(@, PathOf(t), "PERFECTED",
                                     <<"Skipped by Manager">>)]
             /\ tasks' = [tasks EXCEPT ![t].pc = "skipSave",
                                       ![t].judgment = judgment]
        ELSE /\ tasks' = [tasks EXCEPT
                    ![t].pc = "engineer",
                    ![t].judgment = judgment,
                    ![t].license = License(judgment)]
             /\ UNCHANGED architecture
    /\ UNCHANGED <<opc, checkpoint, dependencies>>
    /\ TaskFrame

\* part_000:275-276: the status of the skipped file is saved; the task ends
TaskSkipSaved(t) ==
    /\ tasks[t].pc = "skipSave"
    /\ tasks' = [tasks EXCEPT ![t].pc = "kept", ![t].exists = "unknown",
                              ![t].judgment = <<>>]
    /\ UNCHANGED <<opc, architecture, checkpoint, dependencies>>
    /\ TaskFrame

\* part_000:293-297: the engineer has written the file (which indexes it);
\* the tester is called
TaskBuilt(t) ==
    /\ tasks[t].pc = "engineer"
    /\ dependencies' = indexFile(dependencies, PathOf(t))
    /\ tasks' = [tasks EXCEPT ![t].pc = "audit", ![t].license = "",
                              ![t].exists = "unknown", ![t].judgment = <<>>]
    /\ UNCHANGED <<opc, architecture, checkpoint>>
    /\ TaskFrame

\* a failed audit recorded as STALE
AuditStatusFailStale(postAudit) ==
    IF Includes(postAudit, <<"PASS">>) THEN "PERFECTED" ELSE "STALE"
\* part_000:298
AuditStatus(postAudit) ==
    IF Includes(postAudit, <<"PASS">>) THEN "PERFECTED" ELSE "BUILT"

\* part_000:297-298: the audit arrives and the status is recorded
TaskAudited(t) ==
    /\ tasks[t].pc = "audit"
    /\ \E postAudit \in {<<"PASS">>, <<"FAIL">>} :
        architecture' = [architecture EXCEPT !.files =
            updateFileStatus(@, PathOf(t), AuditStatus(postAudit), postAudit)]
    /\ Goto(t, "statusSave")
    /\ UNCHANGED <<opc, checkpoint, dependencies>>
    /\ TaskFrame

\* a checkpoint that always names the first phase
saveCheckpointPhaseZero(phaseIndex, filePath) ==
    [lastPhase |-> 0, lastFile |-> filePath]
\* part_004:82-89
saveCheckpoint(phaseIndex, filePath) ==
    [lastPhase |-> phaseIndex, lastFile |-> filePath]

\* part_000:298-300: the status is saved; the checkpoint is set
TaskStatusSaved(t) ==
    /\ tasks[t].pc = "statusSave"
    /\ checkpoint' = saveCheckpoint(t[1], PathOf(t))
    /\ Goto(t, "ckptSave")
    /\ UNCHANGED <<opc, architecture, dependencies>>
    /\ TaskFrame

\* part_000:332
StaleOnlyPerfected(status) == status = "PERFECTED"
Invalidates(status) == status = "PERFECTED" \/ status = "BUILT"

\* part_000:328-336: the dependents still to look at, from the first one
\* whose status is to be downgraded
RECURSIVE ToDowngrade(_, _)
ToDowngrade(files, deps) ==
    IF deps = <<>> THEN <<>>
    ELSE IF Head(deps) \in DOMAIN files /\ Invalidates(files[Head(deps)].status)
    THEN deps
    ELSE ToDowngrade(files, Tail(deps))

\* part_000:325-338: the pass goes on over the dependents deps, up to the
\* next save or its end
invalidateDependents(t, deps) ==
    LET rest == ToDowngrade(architecture.files, deps)
    IN IF rest = <<>>
       THEN /\ tasks' = [tasks EXCEPT ![t].pc = "built", ![t].pending = <<>>]
            /\ UNCHANGED architecture
       ELSE /\ architecture' = [architecture EXCEPT !.files =
                    updateFileStatus(@, Head(rest), "STALE",
                                     TextDepChanged(PathOf(t)))]
            /\ tasks' = [tasks EXCEPT ![t].pc = "inval",
                                      ![t].pending = Tail(rest)]

\* part_000:300-302,325-336: the checkpoint is saved; the invalidation pass
\* starts
TaskCheckpointSaved(t) ==
    /\ tasks[t].pc = "ckptSave"
    /\ invalidateDependents(t, getDependents(dependencies, PathOf(t)))
    /\ UNCHANGED <<opc, checkpoint, dependencies>>
    /\ TaskFrame

\* part_000:328-336,302: a downgraded status is saved; the pass goes on
TaskInvalidated(t) ==
    /\ tasks[t].pc = "inval"
    /\ invalidateDependents(t, tasks[t].pending)
    /\ UNCHANGED <<opc, checkpoint, dependencies>>
    /\ TaskFrame

\* part_000:303-305: what an error inside a task does to run
OnTaskErrorRethrow(pc) == "aborted"
OnTaskError(pc) == pc

\* part_000:270,293,297,303-305: an agent call of the task fails
TaskFails(t) ==
    /\ tasks[t].pc \in {"judge", "engineer", "audit"}
    /\ tasks' = [tasks EXCEPT ![t].pc = "failed", ![t].license = "",
                              ![t].exists = "unknown", ![t].judgment = <<>>]
    /\ opc' = OnTaskError(opc)
    /\ UNCHANGED <<architecture, checkpoint, dependencies>>
    /\ TaskFrame

\* part_000:320-322
VerificationReturns ==
    /\ opc = "verification"
    /\ opc' = "complete"
    /\ UNCHANGED <<userPrompt, goals, architecture, checkpoint, retry, hints,
                   lastError,
                   planTry, setupLeft, oerror>>
    /\ Frame

VerificationThrows ==
    /\ opc = "verification"
    /\ opc' = "aborted"
    /\ oerror' = "debugger"
    /\ UNCHANGED <<userPrompt, goals, architecture, checkpoint, retry, hints,
                   lastError,
                   planTry, setupLeft>>
    /\ Frame


\* ----------------------------------------------------------------- ToolSet
\* part_002:432-441
ToolCatalog ==
    {"read_file", "list_files", "run_command", "write_file",
     "replace_in_file", "search_files", "search_symbols", "get_file_context",
     "fetch_url", "post_message"}
\* a name the model may make up
UnknownTool == "delete_file"

\* the texts of the results, by their leading words
ErrorText(msg) == <<"Error", ":">> \o msg
\* part_002:445-447: the catch of execute
ToolCatch(name, msg) == <<"Error", "executing", name, ":">> \o msg

\* what the one operation under a tool call may do, and the text the tool
\* method makes of it: failed says the operation did not succeed, thrown
\* that the method raised text as an error
Outcome(failed, raised, text) ==
    [failed |-> failed, thrown |-> raised, text |-> text]
Raised(msg) == Outcome(TRUE, TRUE, <<msg>>)
FileNotFound == Outcome(TRUE, FALSE, ErrorText(<<"File not found.">>))
Outcomes(name, path) ==
    IF name = "read_file"                                 \* part_002:471-475
    THEN {Outcome(FALSE, FALSE, <<"content of">> \o path), FileNotFound,
          Raised("EISDIR")}
    ELSE IF name = "list_files"                           \* part_002:539-562
    THEN {Outcome(FALSE, FALSE, <<"listing of">> \o path), Raised("ENOENT")}
    ELSE IF name = "replace_in_file"                      \* part_002:501-537
    THEN {Outcome(FALSE, FALSE, <<"Successfully replaced content in">> \o path),
          FileNotFound,
          Outcome(TRUE, FALSE, ErrorText(<<"Search content not found.">>)),
          Raised("EACCES")}
    ELSE IF name = "search_symbols"                       \* part_002:592-598
    THEN {Outcome(FALSE, FALSE, <<"Found relevant symbols in:">>),
          Outcome(FALSE, FALSE, <<"No relevant symbols found in Knowledge Graph.">>),
          Outcome(TRUE, FALSE, ErrorText(<<"Knowledge Graph not active.">>))}
    ELSE IF name = "get_file_context"                     \* part_002:601-615
    THEN {Outcome(FALSE, FALSE, <<"--- FILE:">> \o path), FileNotFound,
          Raised("EISDIR")}
    ELSE IF name = "fetch_url"                            \* part_002:457-465
    THEN {Outcome(FALSE, FALSE, <<"Status:", "200">>),
          Outcome(TRUE, FALSE, <<"Fetch Failed", ":", "fetch failed">>)}
    ELSE IF name = "post_message"                         \* part_002:450-455
    THEN {Outcome(FALSE, FALSE, <<"Message posted to">>),
          Outcome(TRUE, FALSE, ErrorText(<<"Blackboard not active.">>)),
          Raised("ENOSPC")}
    ELSE {}

\* the frame of a step of ToolSet.execute
ToolFrame == UNCHANGED <<gvars, avars, ovars, mvars>>

Returns(text, failed) ==
    /\ tpc' = "returned"
    /\ tresult' = text
    /\ tfailed' = failed

\* part_002:430-448: execute runs up to the first await of the tool method
ToolExecute ==
    /\ tpc = "start"
    /\ IF tname \notin ToolCatalog
       THEN Returns(ErrorText(<<"Unknown tool", tname>>), TRUE)
       ELSE IF targs = "missing"
       THEN Returns(ToolCatch(tname, <<"TypeError">>), TRUE)
       ELSE /\ tpc' = IF tname = "write_file" THEN "write"
                      ELSE IF tname = "run_command" THEN "exec"
                      ELSE IF tname = "search_files" THEN "grep"
                      ELSE "op"
            /\ UNCHANGED <<tresult, tfailed>>
    /\ UNCHANGED <<tname, targs, tpath, written, indexed, syntaxOk, cmdHangs>>
    /\ UNCHANGED bvars
    /\ ToolFrame

\* part_002:430-475,501-562,592-615: the operation under the call is over
OperationDone ==
    /\ tpc = "op"
    /\ \E o \in Outcomes(tname, tpath) :
        /\ Returns(IF o.thrown THEN ToolCatch(tname, o.text) ELSE o.text,
                   o.failed)
        /\ IF tname = "post_message" /\ (o.thrown \/ ~o.failed)
           THEN PostsMessage
           ELSE UNCHANGED bvars
    /\ UNCHANGED <<tname, targs, tpath, written, indexed, syntaxOk, cmdHangs>>
    /\ ToolFrame

\* part_002:477-483, Workspace.js:66-75: the write is over
WriteDone ==
    /\ tpc = "write"
    /\ \E ok \in BOOLEAN :
        IF ok
        THEN /\ written' = TRUE
             /\ tpc' = "index"
             /\ UNCHANGED <<tresult, tfailed>>
        ELSE /\ Returns(ToolCatch(tname, <<"EACCES">>), TRUE)
             /\ UNCHANGED written
    /\ UNCHANGED <<tname, targs, tpath, indexed, syntaxOk, cmdHangs>>
    /\ UNCHANGED bvars
    /\ ToolFrame

\* part_002:485-488: the file is read back and indexed
IndexDone ==
    /\ tpc = "index"
    /\ \E ok \in BOOLEAN :
        IF ok
        THEN /\ indexed' = TRUE
             /\ tpc' = "syntax"
             /\ UNCHANGED <<tresult, tfailed>>
        ELSE /\ Returns(ToolCatch(tname, <<"ENOSPC">>), TRUE)
             /\ UNCHANGED indexed
    /\ UNCHANGED <<tname, targs, tpath, written, syntaxOk, cmdHangs>>
    /\ UNCHANGED bvars
    /\ ToolFrame

\* part_002:490-498: the text writeFile returns, given the syntax check
WriteResultRejects(path, valid) ==
    IF valid THEN <<"Successfully wrote to">> \o path
    ELSE ErrorText(<<"Syntax error detected">>)
WriteResult(path, valid) ==
    <<"Successfully wrote to">> \o path \o
    (IF valid THEN <<>> ELSE <<"WARNING: Syntax error detected:", "stderr">>)

\* part_002:490-498, Workspace.js:144-182: validateSyntax answers
SyntaxDone ==
    /\ tpc = "syntax"
    /\ \E valid \in BOOLEAN :
        /\ syntaxOk' = valid
        /\ Returns(WriteResult(tpath, valid), FALSE)
    /\ UNCHANGED <<tname, targs, tpath, written, indexed, cmdHangs>>
    /\ UNCHANGED bvars
    /\ ToolFrame

\* part_002:564-571: the shell command exits, with status 0 or not; exec is
\* given no timeout
CommandExits ==
    /\ tpc = "exec"
    /\ ~cmdHangs
    /\ \E status \in {0, 1} :
        Returns(IF status = 0 THEN <<"STDOUT:", "STDERR:">>
                ELSE <<"Execution Failed", ":", "STDOUT:", "STDERR:">>,
                status # 0)
    /\ UNCHANGED <<tname, targs, tpath, written, indexed, syntaxOk, cmdHangs>>
    /\ UNCHANGED bvars
    /\ ToolFrame

\* part_002:573-590: grep exits with 0 (matches), 1 (none) or 2 (it failed);
\* a rejected exec is turned into an empty stdout
GrepDone ==
    /\ tpc = "grep"
    /\ \E status \in {0, 1, 2} :
        Returns(IF status = 0 THEN <<"matches in">> \o tpath
                ELSE <<"No matches found.">>,
                status = 2)
    /\ UNCHANGED <<tname, targs, tpath, written, indexed, syntaxOk, cmdHangs>>
    /\ UNCHANGED bvars
    /\ ToolFrame

\* -------------------------------------------------------------------- main
\* the frame of a step of main
MainFrame == UNCHANGED <<gvars, avars, ovars, tvars, bvars>>

\* bin/codegrounds.js:80-88: run has thrown; main prints the error and
\* returns, and the process ends with the default exit code
MainCatch ==
    /\ mpc = "running"
    /\ opc = "aborted"
    /\ reported' = TRUE
    /\ mpc' = "ended"
    /\ exitCode' = 0
    /\ MainFrame

\* bin/codegrounds.js:80-88: run has returned; so does main
MainReturns ==
    /\ mpc = "running"
    /\ opc = "complete"
    /\ mpc' = "ended"
    /\ exitCode' = 0
    /\ UNCHANGED reported
    /\ MainFrame

\* ---------------------------------------------------------- specifications
GeminiIdle ==
    /\ gpc = "idle"
    /\ currentKeyIndex = 0
    /\ currentModel = <<>>
    /\ attempt = 0
    /\ error = NoError
    /\ thrown = NoError
    /\ response = <<>>
    /\ usedClient = 0
    /\ delay = 0

AgentIdle(pc) ==
    /\ apc = pc
    /\ i = 0
    /\ currentMaxSteps = 0
    /\ functionResponses = <<>>
    /\ inFlight = {}
    /\ execLog = <<>>
    /\ athrown = NoError
    /\ modelCalls = 0

\* the blackboard of a new project (part_004:8-30), no run under way
NoCheckpoint == [lastPhase |-> 0, lastFile |-> <<>>]
Persisted(plan, files, ckpt, project) ==
    [architecture |-> Architecture(plan, files), checkpoint |-> ckpt,
     goals |-> project]
NewProject == Persisted(NoPlan, NoFiles, NoCheckpoint, <<>>)

Files(a, b) ==
    updateFileStatus(updateFileStatus(NoFiles, PathA, a, TextAudited),
                     PathB, b, TextAudited)

\* states earlier runs leave on disk: a run of the two-phase plan stopped
\* after b.js was audited; one stopped after phase 2 was checkpointed; a run
\* of the one-phase plan that came to its end
SavedProjects ==
    {Persisted(PlanTwoPhases, Files("BUILT", "PERFECTED"), NoCheckpoint,
               <<"requirements">>),
     Persisted(PlanTwoPhases, Files("PERFECTED", "BUILT"),
               [lastPhase |-> 1, lastFile |-> PathB], <<"requirements">>),
     Persisted(PlanOnePhase,
               updateFileStatus(
                   updateFileStatus(Files("BUILT", "PERFECTED"), PathC,
                                    "PERFECTED", TextAudited),
                   PathAB, "STALE", TextDepChanged(PathAB)),
               [lastPhase |-> 0, lastFile |-> PathAB], <<"requirements">>)}

\* nothing but the subsystem under study is running
MainIdle ==
    /\ mpc = "running"
    /\ reported = FALSE
    /\ exitCode = 0

ToolIdle(pc) ==
    /\ tpc = pc
    /\ tresult = <<>>
    /\ tfailed = FALSE
    /\ written = FALSE
    /\ indexed = FALSE
    /\ syntaxOk = TRUE

NoTool ==
    /\ ToolIdle("idle")
    /\ tname = ""
    /\ targs = "given"
    /\ tpath = <<>>
    /\ cmdHangs = FALSE

\* part_004:8-30: the logs of a new blackboard
LogsEmpty ==
    /\ bbHistory = <<>>
    /\ messages = <<>>
    /\ recorded = 0
    /\ posted = 0

NoAgent ==
    /\ GeminiIdle
    /\ AgentIdle("idle")
    /\ clients = {1}
    /\ history = <<>>
    /\ maxSteps = 0
    /\ modelName = <<>>
    /\ keyIndex = 0
    /\ allowedTools = {}
    /\ modelScript = <<>>

OrchIdle(pc) ==
    /\ opc = pc
    /\ hasArchitecture = FALSE
    /\ verification = <<>>
    /\ retry = 0
    /\ hints = <<>>
    /\ lastError = ""
    /\ planTry = 0
    /\ setupLeft = 0
    /\ lastPhase = 0
    /\ phaseIdx = 0
    /\ chunkAt = 0
    /\ tasks = [t \in {} |-> NewTask]
    /\ oerror = ""

\* part_000:90-106, part_004:33-52, part_003:13-22: run is called for a new
\* project, or for a saved one
OrchInit ==
    /\ OrchIdle("start")
    /\ \/ /\ isUpdate = FALSE
          /\ loaded = NewProject
          /\ dependencies = <<>>
          /\ userPrompt = {}
          /\ recorded = 0
       \/ /\ isUpdate = TRUE
          /\ loaded \in SavedProjects
          /\ dependencies = FullIndex
          /\ userPrompt \in {{}, {PhraseCheck}, {PhraseRecheck}}
          /\ recorded = 3
    /\ goals = loaded.goals
    /\ architecture = loaded.architecture
    /\ checkpoint = loaded.checkpoint
    /\ bbHistory = SeqOfRange(1, recorded)
    /\ messages = <<>>
    /\ posted = 0
    /\ NoAgent
    /\ NoTool
    /\ MainIdle

NoRun ==
    /\ OrchIdle("idle")
    /\ isUpdate = FALSE
    /\ userPrompt = {}
    /\ loaded = NewProject
    /\ goals = <<>>
    /\ architecture = NewProject.architecture
    /\ checkpoint = NoCheckpoint
    /\ dependencies = <<>>

\* ToolSet.execute alone: every tool name, with and without arguments
ToolInit ==
    /\ ToolIdle("start")
    /\ tname \in ToolCatalog \cup {UnknownTool}
    /\ targs \in {"given", "missing"}
    /\ tpath \in IF tname \in {"read_file", "list_files", "write_file",
                              "replace_in_file", "search_files",
                              "get_file_context"} THEN {PathA, PathC} ELSE {<<>>}
    /\ cmdHangs \in IF tname = "run_command" THEN BOOLEAN ELSE {FALSE}
    /\ posted \in {0, MessageLimit}
    /\ messages = SeqOfRange(1, posted)
    /\ bbHistory = <<>>
    /\ recorded = 0
    /\ NoAgent
    /\ NoRun
    /\ MainIdle

ToolNext ==
    \/ ToolExecute
    \/ OperationDone
    \/ WriteDone
    \/ IndexDone
    \/ SyntaxDone
    \/ CommandExits
    \/ GrepDone

SpecToolSet == ToolInit /\ [][ToolNext]_vars

\* operations that end are seen to end, and continuations run
SpecToolSetFair == SpecToolSet /\ WF_vars(ToolNext)

\* part_004:58-74, part_002:450-455: the operations that write the logs
BlackboardRecord ==
    /\ recorded < MaxRecorded
    /\ RecordsEvent
    /\ UNCHANGED <<gvars, avars, ovars, mvars, tvars>>

BlackboardPost ==
    /\ posted < MaxPosted
    /\ PostsMessage
    /\ UNCHANGED <<gvars, avars, ovars, mvars, tvars>>

BlackboardInit ==
    /\ LogsEmpty
    /\ NoAgent
    /\ NoRun
    /\ NoTool
    /\ MainIdle

BlackboardNext ==
    \/ BlackboardRecord
    \/ BlackboardPost

SpecBlackboard == BlackboardInit /\ [][BlackboardNext]_vars

OrchNext ==
    \/ Run
    \/ ClarifyReturns
    \/ ClarifyThrows
    \/ RequirementsReturns
    \/ RequirementsThrows
    \/ VerifyReturns
    \/ VerifyThrows
    \/ PlanReturns
    \/ PlanThrows
    \/ Approve
    \/ TestStrategyReturns
    \/ TestStrategyThrows
    \/ SetupReturns
    \/ SetupThrows
    \/ Advance
    \/ \E t \in DOMAIN tasks : TaskExists(t)
    \/ \E t \in DOMAIN tasks : TaskJudged(t)
    \/ \E t \in DOMAIN tasks : TaskSkipSaved(t)
    \/ \E t \in DOMAIN tasks : TaskBuilt(t)
    \/ \E t \in DOMAIN tasks : TaskAudited(t)
    \/ \E t \in DOMAIN tasks : TaskStatusSaved(t)
    \/ \E t \in DOMAIN tasks : TaskCheckpointSaved(t)
    \/ \E t \in DOMAIN tasks : TaskInvalidated(t)
    \/ \E t \in DOMAIN tasks : TaskFails(t)
    \/ VerificationReturns
    \/ VerificationThrows
    \/ MainCatch
    \/ MainReturns

SpecOrch == OrchInit /\ [][OrchNext]_vars

\* agents answer or fail, saves complete and continuations run
SpecOrchFair == SpecOrch /\ WF_vars(OrchNext)


\* generateText alone: every pool, every caller-supplied history
GeminiInit ==
    /\ clients \in SUBSET Slots
    /\ history \in {HistoryOfLen(n) : n \in 0..MaxHist}
    /\ GeminiIdle
    /\ AgentIdle("idle")
    /\ maxSteps = 0
    /\ modelName = <<>>
    /\ keyIndex = 0
    /\ allowedTools = {}
    /\ modelScript = <<>>
    /\ NoRun
    /\ MainIdle
    /\ NoTool
    /\ LogsEmpty

GeminiNext ==
    \/ GeminiCall
    \/ RequestSucceeds
    \/ RequestFails
    \/ CatchFatal
    \/ CatchContextOverflow
    \/ CatchBackoff
    \/ BackoffElapsed
    \/ CatchRotate
    \/ CatchDowngrade
    \/ CatchExhausted

SpecGemini == GeminiInit /\ [][GeminiNext]_vars

\* requests come back, timers fire and handlers run
SpecGeminiFair == SpecGemini /\ WF_vars(GeminiNext)

\* the agents the build controller creates, with all tools or read-only
\* (part_000:34-73), talk to a free model; an agent
\* of any step budget talks to a model scripted to call tools every time
AgentInit ==
    /\ GeminiIdle
    /\ AgentIdle("start")
    /\ NoRun
    /\ MainIdle
    /\ NoTool
    /\ LogsEmpty
    /\ history = <<>>
    /\ \/ /\ modelScript = <<>>
          /\ \E p \in {<<{1}, 1>>, <<{1, 2}, 4>>} :
                clients = p[1] /\ keyIndex = p[2]
          /\ maxSteps \in 0..MaxFreeSteps
          /\ modelName \in {ModelPro, ModelFlash}
          /\ allowedTools \in {ToolNames, {"read_file"}}
       \/ /\ modelScript \in {r \in Responses : funcCallParts(r) # <<>>}
          /\ clients = {1}
          /\ maxSteps \in (0..2) \cup ((GraceLimit - 1)..(GraceLimit + MaxOver))
          /\ keyIndex = 1
          /\ modelName = ModelFlash
          /\ allowedTools = ToolNames

AgentNext ==
    \/ Execute
    \/ OnTextResponse
    \/ OnToolResponse
    \/ OnModelError
    \/ ToolReturnNext
    \/ ToolReturnLast
    \/ RequestSucceeds
    \/ RequestFails
    \/ CatchFatal
    \/ CatchContextOverflow
    \/ CatchBackoff
    \/ BackoffElapsed
    \/ CatchRotate
    \/ CatchDowngrade
    \/ CatchExhausted

SpecAgent == AgentInit /\ [][AgentNext]_vars

\* ------------------------------------------------------------------ claims
\* C1: at the retry ceiling of a rate-limit/network failure, with two or
\* more configured slots and any starting index, the next request goes
\* through a backend client other than the one whose requests just failed,
\* and the slot chosen is the next higher configured index (wrapping).
C1_RotationUsesDifferentClient ==
    [][(/\ gpc = "catch"
        /\ RetryOnly(error)
        /\ attempt = maxRetries
        /\ Cardinality(clients) >= 2)
       => (/\ gpc' = "request"
           /\ getClient(currentKeyIndex') # usedClient
           /\ currentKeyIndex' =
                IF \E k \in clients : k > currentKeyIndex
                THEN Min({k \in clients : k > currentKeyIndex})
                ELSE Min(clients))]_vars

\* C2: when the backend answers every request with a rate-limit or network
\* failure, generateText ends after finitely many requests: in every
\* behaviour the call eventually ends, unless the backend at some point
\* answers otherwise.
C2_TerminatesWhenBackendKeepsFailing ==
    <>(\/ gpc \in {"returned", "thrown"}
       \/ (gpc = "catch" /\ ~RetryOnly(error)))

\* C3: a failure classified as context overflow leaves at most 2 turns in
\* the caller's history before the next request is sent; of a history of 2
\* or more turns exactly the last two are kept, the model turn and its
\* function turn, in that order.
C3_OverflowPrunesToLastExchange ==
    [][(gpc = "catch" /\ isContextError(error))
       => (/\ gpc' = "request"
           /\ Len(history') <= 2
           /\ Len(history) >= 2 =>
                /\ history' = <<history[Len(history) - 1], history[Len(history)]>>
                /\ history'[1].role = "model"
                /\ history'[2].role = "function"
                /\ history'[1].id = history'[2].id)]_vars
C3_Witness ==
    /\ gpc = "request"
    /\ i = 2
    /\ Len(history) = 2
    /\ history[1] = Turn("model", 1, response)
    /\ history[2].role = "function" /\ history[2].id = 1

\* C4: with a model that calls a tool in every response, execute never
\* returns a result; it makes exactly maxSteps generateText calls when
\* maxSteps >= 100, never more than 104 otherwise, and ends by throwing
\* 'Exceeded max tool steps'.
C4_StepBudget ==
    modelScript # <<>> =>
        /\ apc # "returned"
        /\ modelCalls <= (IF maxSteps >= GraceLimit THEN maxSteps
                          ELSE GraceLimit + GraceExtension - 1)
        /\ apc = "thrown" =>
            /\ athrown = MsgExceeded
            /\ maxSteps >= GraceLimit => modelCalls = maxSteps
C4_Witness ==
    /\ modelScript # <<>>
    /\ maxSteps = GraceLimit
    /\ apc = "thrown"
    /\ athrown = MsgExceeded
    /\ modelCalls = GraceLimit

C6_ResumeStartsAtCheckpointPhase ==
    isUpdate =>
        /\ \A t \in DOMAIN tasks :
              t[1] < loaded.checkpoint.lastPhase => tasks[t].pc = "pending"
        /\ opc \in {"construction", "verification", "complete"}
              => phaseIdx >= loaded.checkpoint.lastPhase

\* a resumed run is complete: it has built the file of phase 1 and has not
\* touched the file of phase 0
C6_Witness ==
    /\ isUpdate
    /\ loaded.checkpoint.lastPhase = 1
    /\ opc = "complete"
    /\ DOMAIN tasks = {<<0, 1>>, <<1, 1>>}
    /\ tasks[<<0, 1>>].pc = "pending"
    /\ tasks[<<1, 1>>].pc = "built"

\* C7: in every step of the invalidation pass that follows the build of a
\* file A, each dependent of A the step looks at that is tracked with status
\* PERFECTED or BUILT gets status STALE, and the record of every other file
\* (those that are not dependents of A among them) is left as it was; the
\* pass looks at the dependents of A in order and ends when none is left
C7_InvalidationStalesDependentsOnly ==
    [][\A t \in DOMAIN tasks :
        (tasks[t].pc \in {"ckptSave", "inval"} /\ tasks'[t] # tasks[t]) =>
            LET A == PathOf(t)
                deps == getDependents(dependencies, A)
                before == IF tasks[t].pc = "ckptSave" THEN deps
                          ELSE tasks[t].pending
                after == tasks'[t].pending
                seen == {before[n] : n \in 1..(Len(before) - Len(after))}
                files == architecture.files
            IN /\ Len(after) <= Len(before)
               /\ after = SubSeq(before, Len(before) - Len(after) + 1,
                                 Len(before))
               /\ seen \subseteq {deps[n] : n \in 1..Len(deps)}
               /\ tasks'[t].pc = "built" => after = <<>>
               /\ DOMAIN architecture'.files = DOMAIN files
               /\ \A f \in DOMAIN files :
                    IF f \in seen /\ files[f].status \in {"PERFECTED", "BUILT"}
                    THEN architecture'.files[f].status = "STALE"
                    ELSE architecture'.files[f] = files[f]
      ]_vars

\* the pass after the build of a.js is over: b.js, which requires it, is
\* STALE because of a.js, and lib/c.js, which does not, is as it was saved
C7_Witness ==
    /\ \E t \in DOMAIN tasks : PathOf(t) = PathA /\ tasks[t].pc = "built"
    /\ PathB \in DOMAIN architecture.files
    /\ architecture.files[PathB] = FileRecord("STALE", TextDepChanged(PathA))
    /\ PathC \in DOMAIN architecture.files
    /\ PathC \in DOMAIN loaded.architecture.files
    /\ architecture.files[PathC] = loaded.architecture.files[PathC]
    /\ architecture.files[PathC].status = "PERFECTED"

\* C8: of the phases the run constructs (those from the checkpoint's phase
\* on), no File Task of a later phase has started while a File Task of an
\* earlier phase is neither finished, skipped nor failed
C8_PhasesStrictlySequential ==
    \A t \in DOMAIN tasks, u \in DOMAIN tasks :
        (lastPhase <= t[1] /\ t[1] < u[1] /\ tasks[u].pc # "pending")
            => Settled(tasks[t].pc)

\* the task of phase 2 is with the judge or the engineer, the task of phase 1
\* has gone through its build, audit, checkpoint and invalidation
C8_Witness ==
    \E t \in DOMAIN tasks, u \in DOMAIN tasks :
        /\ t[1] < u[1]
        /\ tasks[t].pc = "built"
        /\ tasks[u].pc \in {"judge", "engineer"}

\* C9: in a resumed run whose instruction has no recheck phrase, a file that
\* the persisted File Status Record marks PERFECTED at the start of the run
\* is skipped and no agent is invoked for it
C9_PerfectedAtRunStartIsSkipped ==
    (isUpdate /\ ~needsRecheck) =>
        \A t \in DOMAIN tasks :
            StatusOf(loaded.architecture.files, PathOf(t)) = "PERFECTED"
                => tasks[t].pc \in {"pending", "skipped"}

\* C9, amended: in a resumed run a File Task whose file the File Status
\* Record marks PERFECTED when the task starts is skipped and no agent is
\* invoked for it; a file marked PERFECTED at the start of the run (and no
\* recheck phrase) is processed only if its record is STALE or absent by
\* the time its task starts
C9_PerfectedAtTaskStartIsSkipped ==
    isUpdate =>
        \A t \in DOMAIN tasks :
            /\ tasks[t].startStatus = "PERFECTED" => tasks[t].pc = "skipped"
            /\ (/\ ~needsRecheck
                /\ StatusOf(loaded.architecture.files, PathOf(t)) = "PERFECTED"
                /\ tasks[t].pc \notin {"pending", "skipped"})
                   => tasks[t].startStatus \in {"STALE", "undefined"}

\* b.js was PERFECTED when the run started and when its task started: it
\* is skipped, while a.js has been built anew
C9_Witness ==
    /\ isUpdate
    /\ ~needsRecheck
    /\ \E t \in DOMAIN tasks, u \in DOMAIN tasks :
        /\ StatusOf(loaded.architecture.files, PathOf(t)) = "PERFECTED"
        /\ tasks[t].startStatus = "PERFECTED"
        /\ tasks[t].pc = "skipped"
        /\ tasks[u].pc = "built"

\* C10: once an agent call of a File Task has failed, the run still reaches
\* VERIFICATION; it is not aborted by the failure, and when it reaches
\* VERIFICATION every File Task of the constructed phases, the siblings of
\* the failed one among them, has finished, been skipped or failed; a chunk
\* is started only when all tasks of the chunks before it have
C10_TaskFailureIsContained ==
    /\ (\E t \in DOMAIN tasks : tasks[t].pc = "failed")
          ~> (opc \in {"verification", "complete"} \/ oerror = "debugger")
    /\ [](\A t \in DOMAIN tasks :
            /\ (tasks[t].pc = "failed" /\ opc = "aborted")
                  => oerror = "debugger"
            /\ (opc \in {"verification", "complete"} /\ t[1] >= lastPhase)
                  => Settled(tasks[t].pc)
            /\ \A u \in DOMAIN tasks :
                 (/\ t[1] = u[1]
                  /\ (t[2] - 1) \div CHUNK_SIZE < (u[2] - 1) \div CHUNK_SIZE
                  /\ tasks[u].pc # "pending")
                    => Settled(tasks[t].pc))

\* the run is at VERIFICATION: a task of the first chunk has failed, a
\* sibling of it has been built, and so has the task of the next chunk
C10_Witness ==
    /\ opc = "verification"
    /\ \E t \in DOMAIN tasks, u \in DOMAIN tasks, w \in DOMAIN tasks :
        /\ t # u
        /\ t[1] = u[1] /\ t[1] = w[1]
        /\ t[2] <= CHUNK_SIZE /\ u[2] <= CHUNK_SIZE /\ w[2] > CHUNK_SIZE
        /\ tasks[t].pc = "failed"
        /\ tasks[u].pc = "built"
        /\ tasks[w].pc = "built"

\* C11: during construction at most 3 File Tasks are in flight; those in
\* flight belong to one chunk of at most 3 consecutive tasks of one phase,
\* and no task of a later chunk of the phase has started while a task of an
\* earlier chunk has not settled
C11_AtMostThreeInFlight ==
    LET inflight == {t \in DOMAIN tasks :
                        tasks[t].pc # "pending" /\ ~Settled(tasks[t].pc)}
        chunk(t) == (t[2] - 1) \div 3
    IN /\ Cardinality(inflight) <= 3
       /\ \A t \in inflight, u \in inflight :
            t[1] = u[1] /\ chunk(t) = chunk(u)
       /\ \A t \in DOMAIN tasks, u \in DOMAIN tasks :
            (t[1] = u[1] /\ chunk(t) < chunk(u) /\ tasks[u].pc # "pending")
                => Settled(tasks[t].pc)

\* three tasks of one chunk are with an agent at the same time
C11_Witness ==
    Cardinality({t \in DOMAIN tasks :
                    tasks[t].pc \in {"judge", "engineer", "audit"}}) = 3

\* C12: the test-strategy step is entered once, after the plan is approved,
\* and whatever the listing of the tests directory or the tester agent does,
\* the run goes on to construction (its setup commands first)
C12_TestStrategyNeverBlocks ==
    [][/\ (opc = "approve" /\ opc' \notin {"approve", "exited"})
            => opc' = "testStrategy"
       /\ (opc = "testStrategy" /\ opc' # "testStrategy")
            => opc' \in {"setup", "construction"}
       /\ (opc # "testStrategy" /\ opc' = "testStrategy") => opc = "approve"
      ]_vars

\* C13: when run has failed in requirements or planning, or with the
\* terminal failure of an agent call, and the process has ended, the error
\* has been reported and the exit code is not 0
C13_FatalErrorExitsNonZero ==
    (/\ mpc = "ended"
     /\ oerror \in {"agent", "Architect failed to produce valid JSON."})
        => (reported /\ exitCode # 0)

\* C14: execute never throws; it returns a text, and when an operation under
\* the call has failed (or the tool is unknown) the text starts with a
\* failure tag
C14_ExecuteReturnsTaggedText ==
    /\ tpc # "thrown"
    /\ tpc = "returned" =>
        /\ tresult # <<>>
        /\ tfailed => Head(tresult) \in
              {"Error", "Execution Failed", "Fetch Failed", "Search failed"}

\* C15: a write_file call whose write succeeded and whose syntax check
\* failed returns 'Successfully wrote to <path>' with the warning in it, not
\* an error text, and does not throw; the file is written and indexed
C15_SyntaxFailureIsAWarning ==
    (tname = "write_file" /\ tpc \in {"returned", "thrown"} /\ ~syntaxOk) =>
        /\ tpc = "returned"
        /\ SubSeq(tresult, 1, 1 + Len(tpath))
              = <<"Successfully wrote to">> \o tpath
        /\ Includes(tresult, <<"WARNING: Syntax error detected:">>)
        /\ Head(tresult) # "Error"
        /\ written
        /\ indexed

C15_Witness ==
    /\ tname = "write_file"
    /\ tpc = "returned"
    /\ ~syntaxOk
    /\ written

\* C16: a failure that is none of rate limit, transient network, context
\* overflow (a 400, or no API key) makes generateText throw that error in
\* its next step, with no backoff delay, no change of key, model, attempt
\* counter or history, and no request after it
C16_FatalErrorPropagatesAtOnce ==
    [][/\ (gpc = "catch" /\ error \in {MsgBadRequest, MsgNoKey}) =>
            /\ gpc' = "thrown"
            /\ thrown' = error
            /\ UNCHANGED <<history, delay, currentKeyIndex, currentModel,
                           attempt, usedClient, response>>
       /\ gpc = "thrown" => gpc' = "thrown"
      ]_vars

\* the first request was answered with a 400, and generateText has thrown it
C16_Witness ==
    /\ gpc = "thrown"
    /\ thrown = MsgBadRequest
    /\ attempt = 0
    /\ delay = 0

\* C17: at most 3 plan generations are made; an answer that parses ends the
\* retrying and is stored as the architecture; the run fails in planning,
\* with the planning error, only after 3 answers failed to parse, and a
\* failed run never enters construction
C17_PlanRetriedUpToThreeTimes ==
    [][/\ opc = "plan" => planTry < 3
       /\ (opc = "plan" /\ opc' = "aborted" /\ oerror' # "agent") =>
            /\ planTry = 2
            /\ oerror' = "Architect failed to produce valid JSON."
       /\ (opc = "plan" /\ opc' = "approve") =>
            \E p \in Plans : architecture' = Architecture(p, NoFiles)
       /\ opc = "aborted" => opc' = "aborted"
      ]_vars

\* C18: the event history holds at most 50 entries and the message log at
\* most 20, and each is the run of the most recent entries, oldest first
C18_LogsBoundedOldestEvicted ==
    /\ Len(bbHistory) <= 50
    /\ Len(messages) <= 20
    /\ bbHistory = SeqOfRange(IF recorded > 50 THEN recorded - 49 ELSE 1,
                              recorded)
    /\ messages = SeqOfRange(IF posted > 20 THEN posted - 19 ELSE 1, posted)

\* both logs have evicted their oldest entries
C18_Witness ==
    /\ recorded > 50
    /\ posted > 20
    /\ Head(bbHistory) = recorded - 49
    /\ Head(messages) = posted - 19

\* C19: run moves through REQUIREMENTS, ARCHITECTURE, TEST_STRATEGY,
\* CONSTRUCTION, VERIFICATION, COMPLETE in this order and never back: each
\* stage is entered from the one before it (REQUIREMENTS may be passed over
\* on a resume), VERIFICATION only when every task of the constructed phases
\* has settled, COMPLETE only from VERIFICATION, and a run that has ended
\* stays ended
C19_LifecycleOrder ==
    [][LET stage(pc) ==
              CASE pc = "start" -> 0
                [] pc \in {"clarify", "requirements"} -> 1
                [] pc \in {"verify", "plan", "approve"} -> 2
                [] pc = "testStrategy" -> 3
                [] pc \in {"setup", "construction"} -> 4
                [] pc = "verification" -> 5
                [] pc = "complete" -> 6
                [] OTHER -> 7
       IN /\ stage(opc') >= stage(opc)
          /\ (stage(opc') = 2 /\ stage(opc) # 2) => stage(opc) \in {0, 1}
          /\ (stage(opc') = 3 /\ stage(opc) # 3) => opc = "approve"
          /\ (stage(opc') = 4 /\ stage(opc) # 4) => opc = "testStrategy"
          /\ (stage(opc') = 5 /\ stage(opc) # 5) =>
                /\ opc = "construction"
                /\ \A t \in DOMAIN tasks :
                      t[1] >= lastPhase => Settled(tasks[t].pc)
          /\ (stage(opc') = 6 /\ stage(opc) # 6) => opc = "verification"
          /\ stage(opc) \in {6, 7} => opc' = opc
      ]_vars

\* a new project has gone through every stage, both chunks of its one phase
\* included
C19_Witness ==
    /\ ~isUpdate
    /\ opc = "complete"
    /\ goals # <<>>
    /\ Cardinality(DOMAIN tasks) > CHUNK_SIZE
    /\ \A t \in DOMAIN tasks : Settled(tasks[t].pc)

\* C20: a run_command call always comes to return a result, also when the
\* shell command never exits on its own
C20_RunCommandReturns ==
    (tname = "run_command" /\ tpc = "exec") ~> (tpc = "returned")

\* C21: the plan construction works on names every path once, so no two
\* File Tasks in flight at the same time are for the same path
C21_PlanPathsDistinct ==
    opc \in {"construction", "verification", "complete"} =>
        /\ \A t \in DOMAIN tasks, u \in DOMAIN tasks :
              t # u => PathOf(t) # PathOf(u)
        /\ \A t \in DOMAIN tasks, u \in DOMAIN tasks :
              (/\ t # u
               /\ tasks[t].pc # "pending" /\ ~Settled(tasks[t].pc)
               /\ tasks[u].pc # "pending" /\ ~Settled(tasks[u].pc))
                  => PathOf(t) # PathOf(u)

\* C22: at the retry ceiling of a rate-limit/network failure with a 'pro'
\* or 'preview' model: when the pool has a single slot the next request
\* uses gemini-1.5-flash with attempt 0; the model is changed only when no
\* rotation is possible; and in a pool of several slots, once every slot
\* has reached the ceiling the downgrade comes: while the failures go on,
\* the model in use becomes gemini-1.5-flash
C22_DowngradeWhenRotationExhausted ==
    /\ [][(/\ gpc = "catch"
           /\ RetryOnly(error)
           /\ attempt = maxRetries
           /\ CanDowngrade
           /\ Cardinality(clients) = 1)
          => (/\ gpc' = "request"
              /\ currentModel' = ModelFlash
              /\ attempt' = 0
              /\ currentKeyIndex' = currentKeyIndex)]_vars
    /\ [][(gpc = "catch" /\ RetryOnly(error) /\ currentModel' # currentModel)
          => ~CanRotate(getNextAvailableKey(currentKeyIndex))]_vars
    /\ (gpc = "catch" /\ RetryOnly(error) /\ attempt = maxRetries
            /\ CanDowngrade)
         ~> (\/ currentModel = ModelFlash
             \/ gpc \in {"returned", "thrown"}
             \/ (gpc = "catch" /\ ~RetryOnly(error)))

\* C23: when the backend answers every request with a context-overflow
\* failure, generateText ends after finitely many requests: in every
\* behaviour the call eventually ends, unless the backend at some point
\* answers otherwise
C23_TerminatesOnContextOverflow ==
    <>(\/ gpc \in {"returned", "thrown"}
       \/ (gpc = "catch" /\ ~isContextError(error)))

\* C24: a failure whose message matches the context-overflow patterns, also
\* one that matches the rate-limit or network patterns as well, is followed
\* by the next request at once: no backoff delay, the same credential index,
\* attempt 0, and a model identifier that includes 'pro': the current one if
\* it does, gemini-1.5-pro otherwise
C24_OverflowPathOnly ==
    [][(gpc = "catch" /\ isContextError(error))
       => (/\ gpc' = "request"
           /\ delay' = 0
           /\ currentKeyIndex' = currentKeyIndex
           /\ attempt' = 0
           /\ Includes(currentModel', <<"pro">>)
           /\ currentModel' = IF Includes(currentModel, <<"pro">>)
                              THEN currentModel ELSE ModelPro)]_vars

\* a failure matching both the rate-limit and the overflow patterns, at the
\* second attempt on the flash model, has been answered by the overflow path
C24_Witness ==
    /\ gpc = "request"
    /\ error = <<"429", "maximum context length">>
    /\ currentModel = ModelPro
    /\ attempt = 0
    /\ delay = 0
    /\ usedClient # 0

\* C25: a rate-limit/network failure below the ceiling is followed by a wait
\* of 2000 * 2^attempt ms (2 s, 4 s, 8 s at attempts 0, 1, 2) and then by
\* the next request on the same credential and model, with the attempt
\* counter one higher; the failure at the ceiling (attempt 3) is followed by
\* no backoff: either by the terminal error, or by a request with attempt 0
\* that follows a rotation (another credential index) or a downgrade (the
\* flash model)
C25_BackoffSchedule ==
    [][/\ (gpc = "catch" /\ RetryOnly(error)) =>
            /\ attempt \in 0..3
            /\ attempt < 3 =>
                /\ gpc' = "backoff"
                /\ delay' = (CASE attempt = 0 -> 2000
                               [] attempt = 1 -> 4000
                               [] OTHER -> 8000)
                /\ UNCHANGED <<currentKeyIndex, currentModel, attempt>>
            /\ attempt = 3 =>
                /\ gpc' \in {"request", "thrown"}
                /\ gpc' = "thrown" => thrown' = MsgCritical
                /\ gpc' = "request" =>
                    /\ attempt' = 0
                    /\ delay' = 0
                    /\ \/ /\ currentKeyIndex' # currentKeyIndex
                          /\ currentKeyIndex' \in clients
                          /\ currentModel' = currentModel
                       \/ /\ currentModel' # currentModel
                          /\ currentModel' = ModelFlash
                          /\ currentKeyIndex' = currentKeyIndex
       /\ gpc = "backoff" =>
            /\ gpc' = "request"
            /\ attempt' = attempt + 1
            /\ UNCHANGED <<currentKeyIndex, currentModel, delay>>
      ]_vars

\* the fourth failure in a row on one credential and model, after waits of
\* 2 s, 4 s and 8 s: the ceiling
C25_Witness ==
    /\ gpc = "catch"
    /\ RetryOnly(error)
    /\ attempt = 3
    /\ delay = 8000

C27_HistoryEffectOfAStep ==
    /\ [][(apc = "tools" /\ apc' # "tools") =>
            LET k == Len(funcCallParts(response))
                n == Len(history)
            IN /\ k >= 1
               /\ Len(history') = n + 2
               /\ SubSeq(history', 1, n) = history
               /\ history'[n + 1].role = "model"
               /\ history'[n + 1].parts = response
               /\ history'[n + 2].role = "function"
               /\ Len(history'[n + 2].parts) = k
               /\ \A j \in 1..k :
                    history'[n + 2].parts[j].name = funcCallParts(response)[j]]_vars
    /\ [][(apc = "tools" /\ apc' = "tools") => history' = history]_vars
    /\ [][(/\ apc = "awaitModel"
           /\ gpc = "returned"
           /\ funcCallParts(response) = <<>>)
          => (/\ apc' = "returned"
              /\ history' = history
              /\ inFlight' = {}
              /\ execLog' = execLog)]_vars
    /\ [][~(gpc = "catch" /\ isContextError(error)) =>
            /\ Len(history') >= Len(history)
            /\ SubSeq(history', 1, Len(history)) = history]_vars
    /\ [](/\ Len(history) % 2 = 0
          /\ \A n \in 1..Len(history) :
                history[n].role = IF n % 2 = 1 THEN "model" ELSE "function")

\* two turns of tool calls have been appended, the first with one call, the
\* second with two calls around a text part
C27_Witness ==
    /\ apc = "awaitModel"
    /\ Len(history) = 4
    /\ history[1].parts = <<"read_file">>
    /\ history[3].parts = <<"write_file", "text", "read_file">>
    /\ history[4].parts = <<[name |-> "write_file", content |-> "ok"],
                            [name |-> "read_file", content |-> "ok"]>>

\* C28: every tool call handed to the executor names a tool advertised to
\* the role of the agent
C28_OnlyAdvertisedToolsRun ==
    \A j \in 1..Len(execLog) :
        (apc = "tools" /\ execLog[j] \in 1..Len(funcCallParts(response)))
            => funcCallParts(response)[execLog[j]]
                  \in getDefinitions(allowedTools)

\* C29: a File Task that ends successfully, built and audited or judged
\* SKIP, has had the checkpoint <<its phase, its path>> saved; the
\* checkpoint is set after the status of the file is recorded and before the
\* invalidation pass starts; a task that fails changes neither the
\* checkpoint nor the status record of its file
C29_CheckpointAfterEveryCompletedTask ==
    [][\A t \in DOMAIN tasks :
        LET ckpt == [lastPhase |-> t[1], lastFile |-> PathOf(t)]
        IN /\ (tasks[t].pc = "skipSave" /\ tasks'[t].pc = "kept")
                => checkpoint' = ckpt
           /\ (tasks[t].pc = "statusSave" /\ tasks'[t].pc # "statusSave")
                => (/\ checkpoint' = ckpt
                    /\ tasks'[t].pc = "ckptSave"
                    /\ architecture' = architecture
                    /\ PathOf(t) \in DOMAIN architecture.files)
           /\ (tasks[t].pc \in {"ckptSave", "inval"}
                    /\ tasks'[t].pc # tasks[t].pc)
                => checkpoint' = checkpoint
           /\ (tasks[t].pc # "failed" /\ tasks'[t].pc = "failed")
                => (/\ checkpoint' = checkpoint
                    /\ architecture' = architecture)
      ]_vars

\* C30: when A has recorded its status and starts its invalidation pass
\* while B, a task of the same chunk whose recorded dependencies name A, is
\* still in flight, the status of B once both tasks have settled, B with
\* its file built or kept, is STALE
C30_InvalidationNotLost ==
    \A a \in {<<0, 1>>}, b \in {<<0, 2>>, <<0, 3>>} :
        LET same == /\ a \in DOMAIN tasks
                    /\ b \in DOMAIN tasks
                    /\ a[1] = b[1]
                    /\ (a[2] - 1) \div CHUNK_SIZE = (b[2] - 1) \div CHUNK_SIZE
            running(pc) == pc # "pending" /\ ~Settled(pc)
            dependsOn == \E n \in 1..Len(getDependents(dependencies, PathOf(a))) :
                            getDependents(dependencies, PathOf(a))[n] = PathOf(b)
        IN [](( /\ same
                /\ tasks[a].pc = "ckptSave"
                /\ running(tasks[b].pc)
                /\ dependsOn)
              => []((/\ same
                     /\ tasks[a].pc = "built"
                     /\ tasks[b].pc \in {"built", "kept"})
                      => StatusOf(architecture.files, PathOf(b)) = "STALE"))

\* C31: the invalidation pass of a File Task downgrades only other files: no
\* step of the pass of the task for A changes the status record of A, so
\* that A still has its audit outcome, PERFECTED or BUILT, when the task ends
C31_PassSparesItsOwnFile ==
    [][\A t \in DOMAIN tasks :
          (tasks[t].pc \in {"ckptSave", "inval"} /\ tasks'[t].pc # tasks[t].pc)
             => /\ PathOf(t) \in DOMAIN architecture'.files
                /\ architecture'.files[PathOf(t)] = architecture.files[PathOf(t)]
                /\ tasks'[t].pc = "built"
                      => StatusOf(architecture'.files, PathOf(t)) # "STALE"
      ]_vars

\* C32: invalidation is one hop deep: a step of the pass of the task for A
\* changes only records of files among the direct dependents of A, each from
\* PERFECTED or BUILT to STALE, and the pass goes on as long as a dependent
\* with such a status is left; with lib/c.js depending on b.js and b.js on
\* a.js, the pass for a.js leaves the record of lib/c.js as it is; and a
\* record becomes STALE only in the pass of a task that has recorded its own
\* audit, never as a consequence of another record becoming STALE
C32_InvalidationIsShallow ==
    [][LET changed == {p \in DOMAIN architecture'.files :
                          p \notin DOMAIN architecture.files
                          \/ architecture'.files[p] # architecture.files[p]}
           staled == {p \in changed :
                          architecture'.files[p].status = "STALE"}
           Range(s) == {s[n] : n \in 1..Len(s)}
       IN /\ \A t \in DOMAIN tasks :
                (tasks[t].pc \in {"ckptSave", "inval"}
                      /\ tasks'[t].pc # tasks[t].pc)
                   => /\ Cardinality(changed) <= 1
                      /\ changed = staled
                      /\ \A p \in changed :
                            /\ StatusOf(architecture.files, p)
                                  \in {"PERFECTED", "BUILT"}
                            /\ p \in Range(IF tasks[t].pc = "ckptSave"
                                           THEN getDependents(dependencies,
                                                              PathOf(t))
                                           ELSE tasks[t].pending)
                      /\ PathOf(t) = PathA => PathC \notin changed
                      /\ LET list == IF tasks[t].pc = "ckptSave"
                                      THEN getDependents(dependencies,
                                                         PathOf(t))
                                      ELSE tasks[t].pending
                             hit == {p \in Range(list) :
                                        StatusOf(architecture.files, p)
                                            \in {"PERFECTED", "BUILT"}}
                         IN /\ (hit # {}) <=> (changed # {})
                            /\ tasks'[t].pc = IF hit = {} THEN "built"
                                                         ELSE "inval"
          /\ staled # {} =>
                \E t \in DOMAIN tasks :
                    /\ tasks[t].pc \in {"ckptSave", "inval"}
                    /\ tasks'[t].pc # tasks[t].pc
          /\ \A t \in DOMAIN tasks :
                tasks[t].pc = "inval" =>
                    Range(tasks[t].pending)
                        \subseteq Range(getDependents(dependencies, PathOf(t)))
      ]_vars

\* the pass for a.js has ended: b.js, which requires a.js, is STALE because
\* of a.js, and lib/c.js, which requires b.js, is still PERFECTED
C32_Witness ==
    \E t \in DOMAIN tasks :
        /\ PathOf(t) = PathA
        /\ tasks[t].pc = "built"
        /\ \E n \in 1..Len(dependencies) :
              dependencies[n] = [file |-> PathC, deps |-> ImportsOf(PathC)]
        /\ StatusOf(architecture.files, PathB) = "STALE"
        /\ architecture.files[PathB].lastAudit = TextDepChanged(PathA)
        /\ StatusOf(architecture.files, PathC) = "PERFECTED"

C34_ReplanDropsFileRecords ==
    /\ [][/\ (opc = "plan" /\ opc' = "approve")
               => /\ DOMAIN architecture'.files = {}
                  /\ \E p \in Plans :
                        /\ architecture'.phases = p.phases
                        /\ architecture'.setupCommands = p.setupCommands
          /\ (opc = "verify" /\ opc' = "approve")
               => /\ architecture' = architecture
                  /\ architecture = loaded.architecture
          /\ (opc \in {"approve", "testStrategy", "setup"}
                  /\ opc' \in {"approve", "testStrategy", "setup",
                               "construction"})
               => architecture' = architecture
         ]_vars
    /\ [](opc \in {"start", "clarify", "requirements", "verify", "plan"}
             => architecture = loaded.architecture)

\* a resumed run has planned anew and got the plan it had: the statuses
\* that were recorded for a.js and b.js are gone
C34_Witness ==
    /\ isUpdate
    /\ opc = "approve"
    /\ StatusOf(loaded.architecture.files, PathA) = "PERFECTED"
    /\ StatusOf(loaded.architecture.files, PathB) = "BUILT"
    /\ architecture.phases = loaded.architecture.phases
    /\ StatusOf(architecture.files, PathA) = "undefined"
    /\ StatusOf(architecture.files, PathB) = "undefined"

\* C35: in a File Task the manager is asked for a judgment exactly when the
\* file exists; a missing file goes to the engineer with the BUILD license
\* and without a judgment; after a judgment the engineer is called exactly
\* when the judgment is not SKIP, with the REFAC license exactly when it is
\* REFAC and the BUILD license otherwise; on SKIP the status PERFECTED is
\* recorded and the task ends with no call of the engineer or the tester
C35_JudgeAndLicense ==
    /\ [](\A t \in DOMAIN tasks :
            /\ tasks[t].pc = "judge"
                 => tasks[t].exists = "yes" /\ tasks[t].judgment = <<"BUILD">>
            /\ tasks[t].pc = "engineer"
                 => /\ tasks[t].exists \in {"yes", "no"}
                    /\ tasks[t].exists = "no"
                          => tasks[t].judgment = <<"BUILD">>
                    /\ ~Includes(tasks[t].judgment, <<"SKIP">>)
                    /\ tasks[t].license =
                          IF Includes(tasks[t].judgment, <<"REFAC">>)
                          THEN "REFAC" ELSE "BUILD"
            /\ tasks[t].pc = "skipSave"
                 => /\ tasks[t].exists = "yes"
                    /\ Includes(tasks[t].judgment, <<"SKIP">>))
    /\ [][\A t \in DOMAIN tasks :
            (t \in DOMAIN tasks' /\ tasks'[t].pc # tasks[t].pc) =>
              /\ tasks[t].pc = "exists"
                   => /\ tasks'[t].pc \in {"judge", "engineer"}
                      /\ (tasks'[t].pc = "judge") <=> (tasks'[t].exists = "yes")
                      /\ (tasks'[t].pc = "engineer")
                             <=> (tasks'[t].exists = "no")
              /\ tasks[t].pc = "judge"
                   => /\ tasks'[t].pc \in {"skipSave", "engineer", "failed"}
                      /\ tasks'[t].pc = "skipSave"
                            => architecture'.files[PathOf(t)] =
                                  FileRecord("PERFECTED",
                                             <<"Skipped by Manager">>)
                      /\ tasks'[t].pc # "skipSave"
                            => architecture' = architecture
              /\ tasks[t].pc = "skipSave" => tasks'[t].pc = "kept"
              /\ tasks[t].pc = "kept" => FALSE
              /\ tasks'[t].pc = "judge" => tasks[t].pc = "exists"
              /\ tasks'[t].pc = "engineer" => tasks[t].pc \in {"exists", "judge"}
              /\ tasks'[t].pc = "audit" => tasks[t].pc = "engineer"
         ]_vars

\* three tasks of one chunk: a.js exists and is to be refactored, b.js is
\* missing and is being built, lib/c.js was judged SKIP and is PERFECTED
C35_Witness ==
    /\ DOMAIN tasks = {<<0, 1>>, <<0, 2>>, <<0, 3>>, <<0, 4>>}
    /\ tasks[<<0, 1>>].pc = "engineer"
    /\ tasks[<<0, 1>>].exists = "yes"
    /\ tasks[<<0, 1>>].license = "REFAC"
    /\ tasks[<<0, 2>>].pc = "engineer"
    /\ tasks[<<0, 2>>].exists = "no"
    /\ tasks[<<0, 2>>].license = "BUILD"
    /\ tasks[<<0, 3>>].pc = "kept"
    /\ architecture.files[PathC] =
          FileRecord("PERFECTED", <<"Skipped by Manager">>)

\* C36: the engineer's call is followed by one call of the tester, and by
\* no second one; when the audit arrives the status of the file becomes
\* PERFECTED if the audit says PASS and BUILT if not, with the audit as its
\* report; no step of the construction path makes a record STALE: a record
\* becomes STALE only in a step of an invalidation pass
C36_AuditOutcomeSetsStatus ==
    [][LET staled == {p \in DOMAIN architecture'.files :
                         /\ architecture'.files[p].status = "STALE"
                         /\ StatusOf(architecture.files, p) # "STALE"}
       IN /\ \A t \in DOMAIN tasks :
               (t \in DOMAIN tasks' /\ tasks'[t].pc # tasks[t].pc) =>
                 /\ tasks[t].pc = "engineer"
                      => /\ tasks'[t].pc \in {"audit", "failed"}
                         /\ architecture' = architecture
                 /\ tasks[t].pc = "audit"
                      => /\ tasks'[t].pc \in {"statusSave", "failed"}
                         /\ tasks'[t].pc = "statusSave" =>
                              LET rec == architecture'.files[PathOf(t)]
                              IN /\ rec.lastAudit \in {<<"PASS">>, <<"FAIL">>}
                                 /\ rec.status =
                                      IF rec.lastAudit = <<"PASS">>
                                      THEN "PERFECTED" ELSE "BUILT"
                                 /\ \A p \in DOMAIN architecture.files :
                                      p # PathOf(t) =>
                                        architecture'.files[p]
                                           = architecture.files[p]
                         /\ tasks'[t].pc = "failed"
                              => architecture' = architecture
                 /\ tasks'[t].pc = "audit" => tasks[t].pc = "engineer"
                 /\ tasks[t].pc \in {"statusSave", "ckptSave", "inval"}
                      => tasks'[t].pc \in {"ckptSave", "inval", "built"}
                 /\ tasks[t].pc \notin {"ckptSave", "inval"} => staled = {}
          /\ staled # {} =>
               \E t \in DOMAIN tasks : tasks[t].pc \in {"ckptSave", "inval"}
      ]_vars

\* in one chunk a.js was audited PASS and is PERFECTED, b.js was audited
\* FAIL and is BUILT; neither task has started its invalidation pass
C36_Witness ==
    /\ DOMAIN tasks = {<<0, 1>>, <<0, 2>>, <<0, 3>>, <<0, 4>>}
    /\ tasks[<<0, 1>>].pc = "statusSave"
    /\ tasks[<<0, 2>>].pc = "statusSave"
    /\ architecture.files[PathA] = FileRecord("PERFECTED", <<"PASS">>)
    /\ architecture.files[PathB] = FileRecord("BUILT", <<"FAIL">>)

\* C37: the architect is asked to verify the stored plan exactly when the
\* run resumes a project that has a stored plan and the instruction has no
\* recheck phrase, and is asked once; on the verdict VALID the stored plan
\* is reused as it is and no plan is generated; on any other verdict a plan
\* is generated; a new project, or a recheck phrase, goes to plan generation
\* with no verification call
C37_ArchitectureGate ==
    [][LET late == {"plan", "approve", "testStrategy", "setup",
                    "construction", "verification", "complete"}
       IN /\ (opc \in {"start", "requirements"} /\ opc' \in {"verify", "plan"})
               => ((opc' = "verify")
                     <=> (/\ isUpdate
                          /\ Len(loaded.architecture.phases) > 0
                          /\ PhraseRecheck \notin userPrompt'))
          /\ (opc' = "verify" /\ opc # "verify")
               => opc \in {"start", "requirements"} /\ verification = <<>>
          /\ (opc' = "plan" /\ opc # "plan")
               => opc \in {"start", "requirements", "verify"}
          /\ opc = "verify"
               => /\ opc' \in {"verify", "approve", "plan", "aborted"}
                  /\ opc' = "approve"
                        => /\ verification' = TextValid
                           /\ architecture' = loaded.architecture
                  /\ opc' = "plan"
                        => /\ verification' # TextValid
                           /\ verification' # <<>>
                           /\ architecture' = architecture
          /\ opc \in late => opc' # "verify"
          /\ (opc # "verify" /\ opc' # "verify")
               => verification' = verification
      ]_vars

\* a resumed run was told that its stored plan is not VALID and has
\* generated a plan
C37_Witness ==
    /\ isUpdate
    /\ verification = <<"not", "VALID">>
    /\ opc = "approve"
    /\ DOMAIN architecture.files = {}
    /\ Len(loaded.architecture.phases) > 0

\* C38: runWithRetry calls the agent at most AgentRetries + 1 = 3 times; a
\* call that succeeds ends it with no further call; the prompt of a retry
\* holds, in order, the message of every failed attempt before it; when the
\* last attempt fails too the error it raises is that of the last attempt;
\* a new call of runWithRetry starts from the prompt without hints
C38_RetryWithHints ==
    /\ [](/\ retry \in 0..AgentRetries
          /\ AgentRetries + 1 = 3
          /\ opc \in {"requirements", "plan"}
                => /\ Len(hints) = retry
                   /\ retry > 0 => lastError = hints[retry]
                   /\ retry = 0 => lastError = "")
    /\ [][(opc \in {"requirements", "plan"}) =>
             (/\ (opc' = opc /\ retry' > retry)
                   => (/\ retry' = retry + 1
                       /\ lastError' # ""
                       /\ hints' = hints \o <<lastError'>>)
              /\ (opc' = "aborted" /\ oerror' = "agent")
                   => (/\ retry = AgentRetries
                       /\ lastError' # ""
                       /\ hints' = hints \o <<lastError'>>)
              /\ (opc' # opc /\ opc' # "aborted") => (retry' = 0)
              /\ (opc' = opc /\ retry' <= retry)
                   => (/\ opc = "plan"
                       /\ planTry' = planTry + 1
                       /\ retry' = 0
                       /\ hints' = <<>>
                       /\ lastError' = ""))
      ]_vars

\* the third attempt of the requirements call has failed after two others:
\* its prompt held the messages of the first two failures, and the error
\* raised is the third one
C38_Witness ==
    /\ opc = "aborted"
    /\ oerror = "agent"
    /\ goals = <<>>
    /\ retry = AgentRetries
    /\ hints = <<"503 Service Unavailable", MsgExceeded[1],
                 "503 Service Unavailable">>
    /\ lastError = "503 Service Unavailable"

\* C39: an answer of the architect that is not a well-formed plan is
\* treated like one that does not parse: planning goes on to its next
\* attempt, and fails only with the planning error after the third such
\* answer (or with the error of the agent); what is stored as the
\* architecture and used for construction has a list of phases
C39_PlanValidatedBeforeUse ==
    /\ [][(opc = "plan" /\ opc' = "aborted")
             => (/\ oerror' \in {"agent",
                                 "Architect failed to produce valid JSON."}
                 /\ oerror' # "agent" => planTry = PlanAttempts - 1)
         ]_vars
    /\ [](opc \in {"approve", "testStrategy", "setup", "construction"}
             => Len(architecture.phases) > 0)

\* C40: no step changes the credential pool or the key index and model
\* name of the agent; every invocation of generateText by the agent starts
\* at attempt 0 with the agent's key index and model name, whatever key or
\* model the invocation before it had rotated or fallen back to
C40_RotationIsLocalToOneCall ==
    [][/\ clients' = clients
       /\ modelName' = modelName
       /\ keyIndex' = keyIndex
       /\ modelCalls' # modelCalls
            => /\ modelCalls' = modelCalls + 1
               /\ gpc' = "request"
               /\ attempt' = 0
               /\ currentKeyIndex' = keyIndex
               /\ currentModel' = modelName
      ]_vars

\* the second invocation of an agent configured with key 4 and the pro
\* model starts with that key and model; the invocation before it got its
\* response from the client of key 2, after a rotation
C40_Witness ==
    /\ modelCalls = 2
    /\ gpc = "request"
    /\ attempt = 0
    /\ keyIndex = 4
    /\ modelName = ModelPro
    /\ currentKeyIndex = 4
    /\ currentModel = ModelPro
    /\ usedClient = 2
    /\ clients = {1, 2}

====
